---- MODULE Spec2Model ----
(***************************************************************************)
(* Model of the Apigee Edge -> Apigee X migration backend:                 *)
(*   - ApigeeXMigrator (src/migration/apigee_x_migrator.py): the per       *)
(*     resource migrate_* operations, the retry wrapper and migrate_all,   *)
(*   - DependencyAnalyzer (src/migration/dependency_analyzer.py).          *)
(* The destination gateway (module `resources`, class MigrateResources,    *)
(* and the HTTP endpoints behind `requests`) is the environment: it keeps  *)
(* the set of resources that exist at the destination and answers each     *)
(* call with a status code chosen by the environment.                      *)
(***************************************************************************)
EXTENDS Integers, Sequences, FiniteSets, TLC

VARIABLES
    files,      \* source export: directory -> set of file names (self.folder_name)
    appDev,     \* app file -> developerId stored in that file
    dest,       \* resources that exist at the destination gateway
    log,        \* lines present in logs/migration_logs.txt (order and repeats dropped)
    rewritten,  \* product files rewritten in place by Rewrite_product_file
    deployed,   \* deployments accepted by the destination
    pc,         \* position of the coroutine migrate_all
    pending,    \* files of the current directory not yet submitted
    tasks,      \* futures created by loop.run_in_executor, in submission order
    queue,      \* executor work queue: indexes of tasks waiting for a worker
    output,     \* value returned by migrate_all
    rt,         \* a direct call of migrate_with_retry
    hist,       \* results of direct calls of migrate_* , in call order
    edge_data,  \* parsed Edge export handed to DependencyAnalyzer
    dependencies, \* map returned by analyze_dependencies
    order,      \* list returned by get_migration_order
    engine      \* a MigrationEngine: its job, its data and its importer

vars == <<files, appDev, dest, log, rewritten, deployed, pc, pending, tasks,
          queue, output, rt, hist, edge_data, dependencies, order, engine>>

(***************************************************************************)
(* Bounds of the model.                                                    *)
(***************************************************************************)
MaxFiles == 2       \* files in the source export, all directories together
MaxRetries == 3     \* largest `retries` argument of a direct migrate_with_retry call
MaxCalls == 2       \* direct migrate_* calls in one behaviour
MaxEdge == 1        \* policies of a proxy in the Edge data given to the analyzer
MaxPool == 11       \* files of the export of a run that fills the worker pool
MaxResources == 2   \* resources of the Edge organisation a MigrationEngine exports
MaxCreds == 2       \* credentials of an app, and product references of a credential

(***************************************************************************)
(* Program constants.                                                      *)
(***************************************************************************)
DefaultRetries == 3 \* migrate_with_retry(..., retries: int = 3, ...)
MaxWorkers == 10    \* ThreadPoolExecutor(max_workers=10)

JsonFiles == {"a.json", "b.json"}
ZipFiles == {"a.zip", "b.zip"}

Dirs == <<"targetservers", "kvm_env", "kvm_org", "developers", "apps",
          "apiproducts", "proxies", "sharedflows">>
DirSet == {Dirs[i] : i \in 1..Len(Dirs)}
DirFiles(d) == IF d \in {"proxies", "sharedflows"} THEN ZipFiles ELSE JsonFiles

\* str.replace(".json", "") and str.replace(".zip", "") on the file names used
StripJson(f) ==
    CASE f = "a.json" -> "a"
      [] f = "b.json" -> "b"
      [] OTHER -> f
StripZip(f) ==
    CASE f = "a.zip" -> "a"
      [] f = "b.zip" -> "b"
      [] OTHER -> f

\* the bundle file that holds proxy or shared flow `name`
ZipOf(name) == name \o ".zip"

\* content of the exported definitions
DevId(f) == CASE f = "a.json" -> "dev-a" [] f = "b.json" -> "dev-b" [] OTHER -> "dev-?"
DevEmail(f) == CASE f = "a.json" -> "a@x.io" [] f = "b.json" -> "b@x.io" [] OTHER -> ""
DevIds == {"dev-a", "dev-42"}

Key(kind, name) == <<kind, name>>

\* a message is the sequence of the parts it was built from
Contains(msg, part) == \E i \in 1..Len(msg) : msg[i] = part
Count(msg, part) == Cardinality({i \in 1..Len(msg) : msg[i] = part})

Result(rtype, rname, code, ok, msg) ==
    [resource_type |-> rtype, resource_name |-> rname, status_code |-> code,
     success |-> ok, message |-> msg, deployment_status |-> "absent"]
\* Python's None, returned when the retry loop body never runs
NoneResult == Result("None", "None", 0, FALSE, <<>>)

World(d, l, rw, dp) == [dest |-> d, log |-> l, rewritten |-> rw, deployed |-> dp]
\* a step of an operation that wrote or raised: a call sent to the destination
\* and the status it answered (0: it raised), the rewrite of a source file
\* (1: done, 0: it raised), the load or the transformation of a definition
\* that raised (0)
Sent(op, status) == [op |-> op, status |-> status]
\* what an operation returns, the state it leaves, the steps that wrote or raised
Out(r, w, sent) == [result |-> r, world |-> w, sent |-> sent]

\* _log_migration: one line per result handed to it
LogLine(r) == <<r.resource_type, r.resource_name, r.status_code, r.message>>
LogMigration(w, r) == [w EXCEPT !.log = @ \cup {LogLine(r)}]

(***************************************************************************)
(* The destination gateway.                                                *)
(***************************************************************************)
\* what the environment does to one invocation of a migrate_* operation: the
\* create or import call is answered with a status, or an exception is raised
\* while the definition is parsed and transformed or while the call is sent
CreateResp == {[exc |-> FALSE, status |-> s, stage |-> "-"] : s \in {200, 201, 500}}
                \cup {[exc |-> TRUE, status |-> 0, stage |-> st] :
                        st \in {"transform", "submit"}}
\* an exception is raised before the create call is made
Raised(resp) == resp.exc /\ resp.stage = "transform"

\* MigrateResources.<create>: (status_code, response_text), or an exception
GatewayCreate(w, key, resp) ==
    IF resp.exc THEN [exc |-> TRUE, status |-> 0, body |-> "", world |-> w]
    ELSE IF key \in w.dest
         THEN [exc |-> FALSE, status |-> 409, body |-> "duplicate", world |-> w]
    ELSE IF resp.status \in {200, 201}
         THEN [exc |-> FALSE, status |-> resp.status, body |-> "created",
               world |-> [w EXCEPT !.dest = @ \cup {key}]]
    ELSE [exc |-> FALSE, status |-> resp.status, body |-> "error", world |-> w]

\* resource_exists: the kvm endpoint is the environment-scoped one
resource_exists(w, resource_type, resource_name) ==
    CASE resource_type = "proxy" -> Key("proxy", resource_name) \in w.dest
      [] resource_type = "sharedflow" -> Key("sharedflow", resource_name) \in w.dest
      [] resource_type = "kvm" -> Key("kvm_env", resource_name) \in w.dest
      [] resource_type = "targetserver" -> Key("targetserver", resource_name) \in w.dest
      [] resource_type = "developer" -> Key("developer", resource_name) \in w.dest
      [] resource_type = "apiproduct" -> Key("apiproduct", resource_name) \in w.dest
      [] OTHER -> FALSE

ErrorResult(rtype, rname) == Result(rtype, rname, 500, FALSE, <<"Error: ", "exception">>)

(***************************************************************************)
(* Deployment.                                                             *)
(***************************************************************************)
MaxRev == 10
\* str(n) and int(s) on revision numbers
RevStr(n) == ToString(n)
RevInt(s) == CHOOSE n \in 0..MaxRev : ToString(n) = s
MaxOf(S) == CHOOSE n \in S : \A m \in S : m <= n

\* answers to the list-revisions call and to the deployment call
ListResp == {[exc |-> FALSE, status |-> 200, revisions |-> {RevStr(n) : n \in R}] :
                R \in {{}, {1}, {1, 2}, {2, MaxRev}}}
              \cup {[exc |-> FALSE, status |-> 404, revisions |-> {}],
                    [exc |-> TRUE, status |-> 0, revisions |-> {}]}
DeployResp == {[exc |-> FALSE, status |-> 200], [exc |-> FALSE, status |-> 500],
               [exc |-> TRUE, status |-> 0]}

\* _get_latest_revision that does no lookup
get_latest_revision_default(lr) == "1"

\* _get_latest_revision: max() of an empty list raises and is caught
get_latest_revision(lr) ==
    IF lr.exc THEN "1"
    ELSE IF lr.status = 200
         THEN IF lr.revisions = {} THEN "1"
              ELSE RevStr(MaxOf({RevInt(rev) : rev \in lr.revisions}))
    ELSE "1"

DeployLabel(kind) == IF kind = "proxy" THEN "Proxy" ELSE "Shared flow"
DeployName(name, revision) == name \o " (rev " \o revision \o ")"

\* deploy_proxy / deploy_sharedflow (kind is "proxy" or "sharedflow")
Deploy(w, kind, name, revision, lr, dr) ==
    LET rev == IF revision = "1" THEN get_latest_revision(lr) ELSE revision
        rtype == kind \o "_deployment"
    IN  IF dr.exc
        THEN Out(Result(rtype, name, 500, FALSE, <<"Deployment error: ", "exception">>), w, <<Sent("deploy", 0)>>)
        ELSE LET ok == dr.status = 200
                 r == Result(rtype, DeployName(name, rev), dr.status, ok,
                             IF ok THEN <<DeployLabel(kind) \o " deployed successfully to ", "env">>
                                   ELSE <<"Deployment failed: ", "error">>)
                 w1 == IF ok THEN [w EXCEPT !.deployed = @ \cup {<<kind, name, rev>>}]
                             ELSE w
             IN  Out(r, LogMigration(w1, r), <<Sent("deploy", dr.status)>>)

deploy_proxy(w, name, revision, lr, dr) == Deploy(w, "proxy", name, revision, lr, dr)
deploy_sharedflow(w, name, revision, lr, dr) == Deploy(w, "sharedflow", name, revision, lr, dr)

(***************************************************************************)
(* The per-resource migrations.  fs is the source export, ad the           *)
(* developerId of each app file; resp, lr and dr are the destination's     *)
(* answers to the create, list-revisions and deployment calls.             *)
(***************************************************************************)
\* result built from the status code of the create call, logged and returned
Classified(rtype, rname, call, okCode, okMsg) ==
    LET ok == call.status = okCode
        r == Result(rtype, rname, call.status, ok,
                    IF ok THEN <<okMsg>> ELSE <<"Migration failed: ", call.body>>)
    IN  Out(r, LogMigration(call.world, r), <<Sent("create", call.status)>>)

migrate_target_server(w, fs, ts_name, resp) ==
    IF resource_exists(w, "targetserver", StripJson(ts_name))
    THEN Out(Result("targetserver", ts_name, 409, FALSE,
                    <<"Target Server '", ts_name, "' already exists">>), w, <<>>)
    ELSE IF ts_name \notin fs["targetservers"] \/ Raised(resp)
    THEN Out(ErrorResult("targetserver", ts_name), w, <<Sent("load", 0)>>)
    ELSE LET call == GatewayCreate(w, Key("targetserver", StripJson(ts_name)), resp)
         IN  IF call.exc THEN Out(ErrorResult("targetserver", ts_name), w, <<Sent("create", 0)>>)
             ELSE Classified("targetserver", ts_name, call, 200,
                             "Target Server migrated successfully")

migrate_kvm(w, fs, kvm_name, scope, resp) ==
    IF resource_exists(w, "kvm", StripJson(kvm_name))
    THEN Out(Result("kvm", kvm_name, 409, FALSE,
                    <<"KVM '", kvm_name, "' already exists">>), w, <<>>)
    ELSE IF kvm_name \notin fs[IF scope = "env" THEN "kvm_env" ELSE "kvm_org"] \/ Raised(resp)
    THEN Out(ErrorResult("kvm", kvm_name), w, <<Sent("load", 0)>>)
    ELSE LET key == Key(IF scope = "env" THEN "kvm_env" ELSE "kvm_org", StripJson(kvm_name))
             call == GatewayCreate(w, key, resp)
         IN  IF call.exc THEN Out(ErrorResult("kvm", kvm_name), w, <<Sent("create", 0)>>)
             ELSE Classified("kvm", kvm_name, call, 201, "KVM migrated successfully")

migrate_developer(w, fs, dev_filename, resp) ==
    IF dev_filename \notin fs["developers"] \/ Raised(resp)
    THEN Out(ErrorResult("developer", dev_filename), w, <<Sent("load", 0)>>)
    ELSE IF resource_exists(w, "developer", DevEmail(dev_filename))
    THEN Out(Result("developer", dev_filename, 409, FALSE,
                    <<"Developer '", DevEmail(dev_filename), "' already exists">>), w, <<>>)
    ELSE LET call == GatewayCreate(w, Key("developer", DevEmail(dev_filename)), resp)
         IN  IF call.exc THEN Out(ErrorResult("developer", dev_filename), w, <<Sent("create", 0)>>)
             ELSE Classified("developer", dev_filename, call, 201,
                             "Developer migrated successfully")

\* Rewrite_product_file followed by Migrate_product
CreateProduct(w, product_filename, resp) ==
    LET w1 == [w EXCEPT !.rewritten = @ \cup {product_filename}]
        call == GatewayCreate(w1, Key("apiproduct", StripJson(product_filename)), resp)
        out == IF call.exc
               THEN Out(ErrorResult("apiproduct", product_filename), w1, <<Sent("create", 0)>>)
               ELSE Classified("apiproduct", product_filename, call, 201,
                               "Product migrated successfully")
    IN  IF Raised(resp)
        THEN Out(ErrorResult("apiproduct", product_filename), w, <<Sent("rewrite", 0)>>)
        ELSE [out EXCEPT !.sent = <<Sent("rewrite", 1)>> \o @]

\* migrate_product that rewrites the product file before the existence check
migrate_product_rewrite_first(w, fs, product_filename, resp) ==
    IF product_filename \notin fs["apiproducts"]
    THEN Out(ErrorResult("apiproduct", product_filename), w, <<Sent("load", 0)>>)
    ELSE IF resource_exists(w, "apiproduct", StripJson(product_filename))
    THEN Out(Result("apiproduct", product_filename, 409, FALSE,
                    <<"Product '", StripJson(product_filename), "' already exists">>),
             [w EXCEPT !.rewritten = @ \cup {product_filename}], <<Sent("rewrite", 1)>>)
    ELSE CreateProduct(w, product_filename, resp)

migrate_product(w, fs, product_filename, resp) ==
    IF product_filename \notin fs["apiproducts"]
    THEN Out(ErrorResult("apiproduct", product_filename), w, <<Sent("load", 0)>>)
    ELSE IF resource_exists(w, "apiproduct", StripJson(product_filename))
    THEN Out(Result("apiproduct", product_filename, 409, FALSE,
                    <<"Product '", StripJson(product_filename), "' already exists">>), w, <<>>)
    ELSE CreateProduct(w, product_filename, resp)

\* the scan of the developers directory for the app's developerId
DeveloperEmailOf(fs, developer_id) ==
    LET hit == {f \in fs["developers"] : DevId(f) = developer_id}
    IN  IF hit = {} THEN "" ELSE DevEmail(CHOOSE f \in hit : TRUE)

AppKeyName(email, app_name) == email \o "/apps/" \o app_name

migrate_app(w, fs, ad, app_filename, resp) ==
    IF app_filename \notin fs["apps"]
    THEN Out(ErrorResult("app", app_filename), w, <<Sent("load", 0)>>)
    ELSE LET app_name == StripJson(app_filename)
             developer_email == DeveloperEmailOf(fs, ad[app_filename])
         IN  IF developer_email = ""
             THEN Out(Result("app", app_filename, 400, FALSE,
                             <<"Developer not found for app ", app_name>>), w, <<>>)
             ELSE IF Key("app", AppKeyName(developer_email, app_name)) \in w.dest
             THEN Out(Result("app", app_filename, 409, FALSE,
                             <<"App '", app_name, "' already exists">>), w, <<>>)
             ELSE IF Raised(resp)
             THEN Out(ErrorResult("app", app_filename), w, <<Sent("transform", 0)>>)
             ELSE LET call == GatewayCreate(w, Key("app", AppKeyName(developer_email, app_name)), resp)
                  IN  IF call.exc THEN Out(ErrorResult("app", app_filename), w, <<Sent("create", 0)>>)
                      ELSE Classified("app", app_filename, call, 201,
                                      "App migrated successfully")

\* WithDeployment that reports the migration failed when the deployment failed
WithDeploymentStrict(result, dep) ==
    IF dep.result.success
    THEN [result EXCEPT !.message = @ \o <<" and deployed successfully">>,
                        !.deployment_status = "deployed"]
    ELSE [result EXCEPT !.message = @ \o <<" but deployment failed: ">> \o dep.result.message,
                        !.success = FALSE, !.status_code = dep.result.status_code,
                        !.deployment_status = "failed"]

\* the deployment step shared by migrate_proxy and migrate_sharedflow
WithDeployment(result, dep) ==
    IF dep.result.success
    THEN [result EXCEPT !.message = @ \o <<" and deployed successfully">>,
                        !.deployment_status = "deployed"]
    ELSE [result EXCEPT !.message = @ \o <<" but deployment failed: ">> \o dep.result.message,
                        !.deployment_status = "failed"]

\* migrate_proxy / migrate_sharedflow (kind is "proxy" or "sharedflow")
MigrateBundle(w, fs, kind, label, name, deploy_after_migration, resp, lr, dr) ==
    IF resource_exists(w, kind, name)
    THEN Out(Result(kind, name, 409, FALSE, <<label \o " '", name, "' already exists">>), w, <<>>)
    ELSE IF ZipOf(name) \notin fs[IF kind = "proxy" THEN "proxies" ELSE "sharedflows"] \/ Raised(resp)
    THEN Out(ErrorResult(kind, name), w, <<Sent("load", 0)>>)
    ELSE LET call == GatewayCreate(w, Key(kind, name), resp)
         IN  IF call.exc THEN Out(ErrorResult(kind, name), w, <<Sent("create", 0)>>)
             ELSE LET ok == call.status = 200
                      r == Result(kind, name, call.status, ok,
                                  IF ok THEN <<label \o " migrated successfully">>
                                        ELSE <<"Migration failed: ", call.body>>)
                  IN  IF ok /\ deploy_after_migration
                      THEN LET dep == Deploy(call.world, kind, name, "1", lr, dr)
                               r2 == WithDeployment(r, dep)
                           IN  Out(r2, LogMigration(dep.world, r2), <<Sent("create", call.status)>> \o dep.sent)
                      ELSE Out(r, LogMigration(call.world, r), <<Sent("create", call.status)>>)

migrate_proxy(w, fs, proxy_name, deploy_after_migration, resp, lr, dr) ==
    MigrateBundle(w, fs, "proxy", "Proxy", proxy_name, deploy_after_migration, resp, lr, dr)
migrate_sharedflow(w, fs, sf_name, deploy_after_migration, resp, lr, dr) ==
    MigrateBundle(w, fs, "sharedflow", "Shared Flow", sf_name, deploy_after_migration, resp, lr, dr)

(***************************************************************************)
(* Calls and the retry wrapper.                                            *)
(***************************************************************************)
Call(func, arg, scope, deploy) == [func |-> func, arg |-> arg, scope |-> scope, deploy |-> deploy]
Env(resp, lr, dr) == [resp |-> resp, lr |-> lr, dr |-> dr]
Envs == {Env(resp, lr, dr) : resp \in CreateResp, lr \in ListResp, dr \in DeployResp}
\* the environment of a call that requests no deployment
NoDeployEnvs == {Env(resp, CHOOSE lr \in ListResp : lr.exc, CHOOSE dr \in DeployResp : dr.exc) :
                resp \in CreateResp}
\* the status code the destination answers when it accepts a create call
AcceptCode(func) ==
    IF func \in {"migrate_target_server", "migrate_proxy", "migrate_sharedflow"}
    THEN 200 ELSE 201
\* answers given to the calls of a migrate_all run: accepted, refused, unreachable
PoolEnvs(func) ==
    {e \in NoDeployEnvs : e.resp.exc \/ e.resp.status \in {AcceptCode(func), 500}}

\* answers of a destination that accepts every create call
AcceptEnvs(func) == {e \in NoDeployEnvs : ~e.resp.exc /\ e.resp.status = AcceptCode(func)}

\* func(*args)
Invoke(w, fs, ad, c, env) ==
    CASE c.func = "migrate_target_server" -> migrate_target_server(w, fs, c.arg, env.resp)
      [] c.func = "migrate_kvm" -> migrate_kvm(w, fs, c.arg, c.scope, env.resp)
      [] c.func = "migrate_developer" -> migrate_developer(w, fs, c.arg, env.resp)
      [] c.func = "migrate_product" -> migrate_product(w, fs, c.arg, env.resp)
      [] c.func = "migrate_app" -> migrate_app(w, fs, ad, c.arg, env.resp)
      [] c.func = "migrate_proxy" ->
            migrate_proxy(w, fs, c.arg, c.deploy, env.resp, env.lr, env.dr)
      [] c.func = "migrate_sharedflow" ->
            migrate_sharedflow(w, fs, c.arg, c.deploy, env.resp, env.lr, env.dr)

RetryNote(retries) == " (failed after " \o ToString(retries) \o " retries)"

\* a thread inside migrate_with_retry: `attempt` iterations of the loop are over
Thread(c, retries) ==
    [call |-> c, retries |-> retries, attempt |-> 0, ret |-> NoneResult, done |-> FALSE]

\* RetryDecide with the exhaustion test off by one: `attempt == retries - 1`
RetryDecideEarly(th, result) ==
    IF result.success
    THEN [th EXCEPT !.attempt = @ + 1, !.ret = result, !.done = TRUE]
    ELSE IF th.attempt + 1 >= th.retries - 1
    THEN [th EXCEPT !.attempt = @ + 1, !.done = TRUE,
                    !.ret = [result EXCEPT !.message = @ \o <<RetryNote(th.retries)>>]]
    ELSE [th EXCEPT !.attempt = @ + 1]

\* RetryDecide that returns a success only from the last iteration
RetryDecideLate(th, result) ==
    IF th.attempt + 1 = th.retries
    THEN [th EXCEPT !.attempt = @ + 1, !.done = TRUE,
                    !.ret = IF result.success THEN result
                            ELSE [result EXCEPT !.message = @ \o <<RetryNote(th.retries)>>]]
    ELSE [th EXCEPT !.attempt = @ + 1]

\* RetryDecide that gives up at once on a result built from an exception
RetryDecideSkipError(th, result) ==
    IF result.success
    THEN [th EXCEPT !.attempt = @ + 1, !.ret = result, !.done = TRUE]
    ELSE IF th.attempt + 1 = th.retries \/ Contains(result.message, "Error: ")
    THEN [th EXCEPT !.attempt = @ + 1, !.done = TRUE,
                    !.ret = [result EXCEPT !.message = @ \o <<RetryNote(th.retries)>>]]
    ELSE [th EXCEPT !.attempt = @ + 1]

\* what one iteration of the loop returns, or that the loop goes on
RetryDecide(th, result) ==
    IF result.success
    THEN [th EXCEPT !.attempt = @ + 1, !.ret = result, !.done = TRUE]
    ELSE IF th.attempt + 1 = th.retries
    THEN [th EXCEPT !.attempt = @ + 1, !.done = TRUE,
                    !.ret = [result EXCEPT !.message = @ \o <<RetryNote(th.retries)>>]]
    ELSE [th EXCEPT !.attempt = @ + 1]

\* migrate_with_retry, one iteration of `for attempt in range(1, retries + 1)`;
\* an empty range falls off the end of the function
RetryStep(th, w, fs, ad, env) ==
    IF th.attempt >= th.retries
    THEN [thread |-> [th EXCEPT !.done = TRUE], world |-> w, result |-> NoneResult,
          sent |-> <<>>]
    ELSE LET out == Invoke(w, fs, ad, th.call, env)
         IN  [thread |-> RetryDecide(th, out.result), world |-> out.world,
              result |-> out.result, sent |-> out.sent]

(***************************************************************************)
(* State shared by the specifications.                                     *)
(***************************************************************************)
W == World(dest, log, rewritten, deployed)
SetWorld(w) ==
    /\ dest' = w.dest
    /\ log' = w.log
    /\ rewritten' = w.rewritten
    /\ deployed' = w.deployed

\* the files an export is drawn from: one resource in every directory, a key
\* value map of the same name at both scopes, and a second target server
FileUniverse ==
    {<<"targetservers", "a.json">>, <<"targetservers", "b.json">>,
     <<"kvm_env", "a.json">>, <<"kvm_org", "a.json">>, <<"developers", "a.json">>,
     <<"apps", "a.json">>, <<"apiproducts", "a.json">>, <<"proxies", "a.zip">>,
     <<"sharedflows", "a.zip">>}
ExportOf(S) == [d \in DirSet |-> {f \in DirFiles(d) : <<d, f>> \in S}]
\* the exports of at most n files
Exports(n) == {ExportOf(S) : S \in {T \in SUBSET FileUniverse : Cardinality(T) <= n}}

\* developerId of the apps of an export; a file that is absent has none
AppDevs(fs) ==
    {ad \in [JsonFiles -> DevIds] : \A f \in JsonFiles \ fs["apps"] : ad[f] = "dev-42"}

\* destination resources an export can collide with
OwnKeys(fs, ad) ==
    {Key("targetserver", StripJson(f)) : f \in fs["targetservers"]}
    \cup {Key("kvm_env", StripJson(f)) : f \in fs["kvm_env"] \cup fs["kvm_org"]}
    \cup {Key("kvm_org", StripJson(f)) : f \in fs["kvm_org"]}
    \cup {Key("developer", DevEmail(f)) : f \in fs["developers"]}
    \cup {Key("apiproduct", StripJson(f)) : f \in fs["apiproducts"]}
    \cup {Key("app", AppKeyName(DeveloperEmailOf(fs, ad[f]), StripJson(f))) : f \in fs["apps"]}
    \cup {Key("proxy", StripZip(f)) : f \in fs["proxies"]}
    \cup {Key("sharedflow", StripZip(f)) : f \in fs["sharedflows"]}

NoThread == Thread(Call("none", "none", "none", FALSE), 0)
EmptyEdge == [proxies |-> <<>>, api_products |-> <<>>, apps |-> <<>>]
\* no dependency map has been returned yet
NotAnalyzed == [returned |-> FALSE, map |-> <<>>]

\* the parts of the state a specification does not use
IdleAll == pc = 0 /\ pending = {} /\ tasks = <<>> /\ queue = <<>> /\ output = NoneResult
IdleRetry == rt = [thread |-> NoThread, outs |-> <<>>, sents |-> <<>>]
IdleDirect == hist = <<>>
IdleAnalyzer == edge_data = EmptyEdge /\ dependencies = NotAnalyzed /\ order = <<>>
IdleEngine == engine = [step |-> "none"]

InitWorld(n) ==
    /\ files \in Exports(n)
    /\ appDev \in AppDevs(files)
    /\ dest \in SUBSET OwnKeys(files, appDev)
    /\ log = {}
    /\ rewritten = {}
    /\ deployed = {}

(***************************************************************************)
(* migrate_all.                                                            *)
(***************************************************************************)
\* the call submitted for file f of directory d
TaskCall(d, f) ==
    CASE d = "targetservers" -> Call("migrate_target_server", f, "-", FALSE)
      [] d = "kvm_env" -> Call("migrate_kvm", f, "env", FALSE)
      [] d = "kvm_org" -> Call("migrate_kvm", f, "org", FALSE)
      [] d = "developers" -> Call("migrate_developer", f, "-", FALSE)
      [] d = "apps" -> Call("migrate_app", f, "-", FALSE)
      [] d = "apiproducts" -> Call("migrate_product", f, "-", FALSE)
      [] d = "proxies" -> Call("migrate_proxy", StripZip(f), "-", FALSE)
      [] d = "sharedflows" -> Call("migrate_sharedflow", StripZip(f), "-", FALSE)

\* the order in which migrate_all lists the directories
SubmitOrder == <<"targetservers", "kvm_env", "kvm_org", "developers", "apps",
                 "apiproducts", "proxies", "sharedflows">>

\* position of the coroutine once the loops up to directory i - 1 are over
Position(fs, i) ==
    LET left == {j \in i..Len(SubmitOrder) : fs[SubmitOrder[j]] # {}}
    IN  IF left = {} THEN Len(SubmitOrder) + 1
        ELSE CHOOSE j \in left : \A k \in left : j <= k

Future(c) == [thread |-> Thread(c, DefaultRetries), state |-> "queued"]

\* the summary and details migrate_all returns for the gathered results
Summary(results) ==
    [total |-> Len(results),
     success |-> Cardinality({i \in 1..Len(results) : results[i].success}),
     failed |-> Cardinality({i \in 1..Len(results) : ~results[i].success}),
     details |-> results]

\* results collected in a map keyed by resource type and name, so that a second
\* result of the same key is not kept
GatherKeyed(futs) ==
    LET all == [i \in 1..Len(futs) |-> futs[i].thread.ret]
        keep == {i \in 1..Len(all) :
                    \A j \in 1..(i - 1) :
                        \/ all[j].resource_type # all[i].resource_type
                        \/ all[j].resource_name # all[i].resource_name}
        nth(k) == CHOOSE i \in keep : Cardinality({j \in keep : j <= i}) = k
    IN  [k \in 1..Cardinality(keep) |-> all[nth(k)]]

\* asyncio.gather(*tasks): the results in the order of the awaitables
Gather(futs) == [i \in 1..Len(futs) |-> futs[i].thread.ret]

InitAll ==
    /\ InitWorld(MaxFiles)
    /\ pc = Position(files, 1)
    /\ pending = IF pc <= Len(SubmitOrder) THEN files[SubmitOrder[pc]] ELSE {}
    /\ tasks = <<>>
    /\ queue = <<>>
    /\ output = NoneResult
    /\ IdleRetry /\ IdleDirect /\ IdleAnalyzer /\ IdleEngine

\* Submit that hands the file to two tasks
SubmitTwice ==
    /\ pc \in 1..Len(SubmitOrder)
    /\ \E f \in pending :
        /\ tasks' = tasks \o <<Future(TaskCall(SubmitOrder[pc], f)),
                                Future(TaskCall(SubmitOrder[pc], f))>>
        /\ queue' = queue \o <<Len(tasks) + 1, Len(tasks) + 2>>
        /\ IF pending = {f}
           THEN /\ pc' = Position(files, pc + 1)
                /\ pending' = IF pc' <= Len(SubmitOrder) THEN files[SubmitOrder[pc']] ELSE {}
           ELSE pc' = pc /\ pending' = pending \ {f}
    /\ UNCHANGED <<files, appDev, dest, log, rewritten, deployed, output, rt, hist,
                   edge_data, dependencies, order, engine>>

\* tasks.append(loop.run_in_executor(executor, self.migrate_with_retry, ...))
Submit ==
    /\ pc \in 1..Len(SubmitOrder)
    /\ \E f \in pending :
        /\ tasks' = Append(tasks, Future(TaskCall(SubmitOrder[pc], f)))
        /\ queue' = Append(queue, Len(tasks) + 1)
        /\ IF pending = {f}
           THEN /\ pc' = Position(files, pc + 1)
                /\ pending' = IF pc' <= Len(SubmitOrder) THEN files[SubmitOrder[pc']] ELSE {}
           ELSE pc' = pc /\ pending' = pending \ {f}
    /\ UNCHANGED <<files, appDev, dest, log, rewritten, deployed, output, rt, hist,
                   edge_data, dependencies, order, engine>>

Running == {i \in 1..Len(tasks) : tasks[i].state = "running"}

\* WorkerTake of a pool that starts a thread for every work item
WorkerTakeUnbounded ==
    /\ queue # <<>>
    /\ tasks' = [tasks EXCEPT ![Head(queue)].state = "running"]
    /\ queue' = Tail(queue)
    /\ UNCHANGED <<files, appDev, dest, log, rewritten, deployed, pc, pending, output,
                   rt, hist, edge_data, dependencies, order, engine>>

\* a pool thread takes the oldest queued work item
WorkerTake ==
    /\ queue # <<>>
    /\ Cardinality(Running) < MaxWorkers
    /\ tasks' = [tasks EXCEPT ![Head(queue)].state = "running"]
    /\ queue' = Tail(queue)
    /\ UNCHANGED <<files, appDev, dest, log, rewritten, deployed, pc, pending, output,
                   rt, hist, edge_data, dependencies, order, engine>>

\* a pool thread runs one iteration of migrate_with_retry for its work item;
\* the destination answers as it likes, or accepts every call
WorkerRun(accepting) ==
    \E i \in Running :
      \E env \in IF accepting THEN AcceptEnvs(tasks[i].thread.call.func)
                 ELSE PoolEnvs(tasks[i].thread.call.func) :
        LET step == RetryStep(tasks[i].thread, W, files, appDev, env)
        IN  /\ tasks' = [tasks EXCEPT ![i] =
                            [thread |-> step.thread,
                             state |-> IF step.thread.done THEN "done" ELSE "running"]]
            /\ SetWorld(step.world)
            /\ UNCHANGED <<files, appDev, pc, pending, queue, output, rt, hist,
                           edge_data, dependencies, order, engine>>

WorkerAttempt == WorkerRun(FALSE)

\* Return of a run that a failed result aborts: gather re-raises the failure
ReturnUnlessFailed ==
    /\ pc = Len(SubmitOrder) + 1
    /\ \A i \in 1..Len(tasks) : tasks[i].state = "done" /\ tasks[i].thread.ret.success
    /\ output' = Summary(Gather(tasks))
    /\ pc' = Len(SubmitOrder) + 2
    /\ UNCHANGED <<files, appDev, dest, log, rewritten, deployed, pending, tasks,
                   queue, rt, hist, edge_data, dependencies, order, engine>>

\* results = await asyncio.gather(*tasks); return {...}
Return ==
    /\ pc = Len(SubmitOrder) + 1
    /\ \A i \in 1..Len(tasks) : tasks[i].state = "done"
    /\ output' = Summary(Gather(tasks))
    /\ pc' = Len(SubmitOrder) + 2
    /\ UNCHANGED <<files, appDev, dest, log, rewritten, deployed, pending, tasks,
                   queue, rt, hist, edge_data, dependencies, order, engine>>

Next == Submit \/ WorkerTake \/ WorkerAttempt \/ Return
Spec == InitAll /\ [][Next]_vars

(***************************************************************************)
(* migrate_all over an export of more files than the pool has threads,     *)
(* against an empty destination that accepts every create call.            *)
(***************************************************************************)
\* the files of the large export, in the order they are added to it
PoolFiles ==
    <<<<"targetservers", "a.json">>, <<"targetservers", "b.json">>,
      <<"kvm_env", "a.json">>, <<"kvm_org", "a.json">>, <<"developers", "a.json">>,
      <<"apps", "a.json">>, <<"apiproducts", "a.json">>, <<"proxies", "a.zip">>,
      <<"sharedflows", "a.zip">>, <<"kvm_env", "b.json">>, <<"proxies", "b.zip">>,
      <<"sharedflows", "b.zip">>, <<"apiproducts", "b.json">>,
      <<"developers", "b.json">>, <<"kvm_org", "b.json">>, <<"apps", "b.json">>>>
PoolExport(n) == ExportOf({PoolFiles[i] : i \in 1..n})

InitPool ==
    /\ files = PoolExport(IF MaxPool <= Len(PoolFiles) THEN MaxPool ELSE Len(PoolFiles))
    /\ appDev = [f \in JsonFiles |-> "dev-a"]
    /\ dest = {} /\ log = {} /\ rewritten = {} /\ deployed = {}
    /\ pc = Position(files, 1)
    /\ pending = IF pc <= Len(SubmitOrder) THEN files[SubmitOrder[pc]] ELSE {}
    /\ tasks = <<>>
    /\ queue = <<>>
    /\ output = NoneResult
    /\ IdleRetry /\ IdleDirect /\ IdleAnalyzer /\ IdleEngine

WorkerAttemptAccepted == WorkerRun(TRUE)

NextPool == Submit \/ WorkerTake \/ WorkerAttemptAccepted \/ Return
SpecPool == InitPool /\ [][NextPool]_vars

\* the run when the event loop keeps running the coroutine, the pool threads
\* keep running their work items and the destination answers every call
Fairness ==
    /\ WF_vars(Submit)
    /\ WF_vars(WorkerTake)
    /\ WF_vars(WorkerAttempt)
    /\ WF_vars(Return)
SpecLive == InitAll /\ [][Next]_vars /\ Fairness

(***************************************************************************)
(* Direct calls, as the request handlers of server.py make them.           *)
(***************************************************************************)
\* the calls a handler can make: one for every file of the universe, the
\* bundles with and without deployment
DirectCalls ==
    {TaskCall(p[1], p[2]) : p \in FileUniverse}
    \cup {Call(func, "a", "-", TRUE) : func \in {"migrate_proxy", "migrate_sharedflow"}}
EnvsFor(c) == IF c.deploy THEN Envs ELSE NoDeployEnvs

\* the destination resource a call creates
DestKeyOf(c, fs, ad) ==
    CASE c.func = "migrate_target_server" -> Key("targetserver", StripJson(c.arg))
      [] c.func = "migrate_kvm" ->
            Key(IF c.scope = "env" THEN "kvm_env" ELSE "kvm_org", StripJson(c.arg))
      [] c.func = "migrate_developer" -> Key("developer", DevEmail(c.arg))
      [] c.func = "migrate_product" -> Key("apiproduct", StripJson(c.arg))
      [] c.func = "migrate_app" ->
            Key("app", AppKeyName(DeveloperEmailOf(fs, ad[c.arg]), StripJson(c.arg)))
      [] c.func = "migrate_proxy" -> Key("proxy", c.arg)
      [] c.func = "migrate_sharedflow" -> Key("sharedflow", c.arg)

\* the export a direct call works on: the whole universe, or a part of it
InitDirectWorld ==
    /\ files \in {ExportOf(FileUniverse), ExportOf(FileUniverse \ {<<"developers", "a.json">>})}
    /\ appDev \in AppDevs(files)
    /\ log = {}
    /\ rewritten = {}
    /\ deployed = {}

(***************************************************************************)
(* migrate_with_retry called directly, with any `retries`.                 *)
(***************************************************************************)
InitRetry ==
    /\ InitDirectWorld
    /\ \E c \in DirectCalls, n \in 0..MaxRetries :
        /\ rt = [thread |-> Thread(c, n), outs |-> <<>>, sents |-> <<>>]
        /\ dest \in {{}, {DestKeyOf(c, files, appDev)}}
    /\ IdleAll /\ IdleDirect /\ IdleAnalyzer /\ IdleEngine

\* one iteration of the loop; outs records what func returned each time,
\* sents the steps of that invocation that wrote or raised
RetryIterate ==
    /\ ~rt.thread.done
    /\ \E env \in EnvsFor(rt.thread.call) :
        LET step == RetryStep(rt.thread, W, files, appDev, env)
            ran == step.thread.attempt > rt.thread.attempt
        IN  /\ rt' = [thread |-> step.thread,
                      outs |-> IF ran THEN Append(rt.outs, step.result) ELSE rt.outs,
                      sents |-> IF ran THEN Append(rt.sents, step.sent) ELSE rt.sents]
            /\ SetWorld(step.world)
    /\ UNCHANGED <<files, appDev, pc, pending, tasks, queue, output, hist,
                   edge_data, dependencies, order, engine>>

NextRetry == RetryIterate
SpecRetry == InitRetry /\ [][NextRetry]_vars

(***************************************************************************)
(* migrate_* called directly, one call after the other.                    *)
(***************************************************************************)
InitSeq ==
    /\ InitDirectWorld
    /\ dest = {}
    /\ hist = <<>>
    /\ IdleAll /\ IdleRetry /\ IdleAnalyzer /\ IdleEngine

\* one request: the call, whether the destination held the resource before
\* it, the result and the write calls sent to the destination
DirectCall ==
    /\ Len(hist) < MaxCalls
    /\ \E c \in DirectCalls : \E env \in EnvsFor(c) :
        LET out == Invoke(W, files, appDev, c, env)
        IN  /\ hist' = Append(hist, [call |-> c,
                                     held |-> DestKeyOf(c, files, appDev) \in dest,
                                     result |-> out.result, sent |-> out.sent])
            /\ SetWorld(out.world)
    /\ UNCHANGED <<files, appDev, pc, pending, tasks, queue, output, rt,
                   edge_data, dependencies, order, engine>>

NextSeq == DirectCall
SpecSeq == InitSeq /\ [][NextSeq]_vars

(***************************************************************************)
(* deploy_proxy and deploy_sharedflow called directly.                     *)
(***************************************************************************)
\* payload.get("revision", "1"): the revision of the request, "1" without one
Revisions == {"1", "2"}

InitDeploy ==
    /\ files = ExportOf({}) /\ appDev \in AppDevs(files)
    /\ dest = {} /\ log = {} /\ rewritten = {} /\ deployed = {}
    /\ hist = <<>>
    /\ IdleAll /\ IdleRetry /\ IdleAnalyzer /\ IdleEngine

\* one deployment request; lookup is the answer to the list-revisions call
DeployCall ==
    /\ Len(hist) < MaxCalls
    /\ \E kind \in {"proxy", "sharedflow"}, revision \in Revisions :
       \E lr \in ListResp, dr \in DeployResp :
        LET out == IF kind = "proxy" THEN deploy_proxy(W, "a", revision, lr, dr)
                   ELSE deploy_sharedflow(W, "a", revision, lr, dr)
        IN  /\ hist' = Append(hist, [call |-> [kind |-> kind, name |-> "a",
                                               revision |-> revision],
                                     lookup |-> lr, result |-> out.result,
                                     sent |-> out.sent])
            /\ SetWorld(out.world)
    /\ UNCHANGED <<files, appDev, pc, pending, tasks, queue, output, rt,
                   edge_data, dependencies, order, engine>>

NextDeploy == DeployCall
SpecDeploy == InitDeploy /\ [][NextDeploy]_vars

(***************************************************************************)
(* DependencyAnalyzer.                                                     *)
(***************************************************************************)
\* str.replace("KVM-", "") on the policy names used
StripKvm(n) == CASE n = "KVM-k" -> "k" [] OTHER -> n

Policies == {[type |-> "KeyValueMapOperations", name |-> "KVM-k"],
             [type |-> "FlowCallout", name |-> "sf"],
             [type |-> "AssignMessage", name |-> "am"]}
SeqsUpTo(S, n) == UNION {[1..k -> S] : k \in 0..n}
ProxyDefs == {[name |-> nm, target_servers |-> ts, policies |-> pol] :
                nm \in {"p", "q"}, ts \in {<<>>, <<"t">>}, pol \in SeqsUpTo(Policies, MaxEdge)}
ProductDefs == {[name |-> "prod", proxies |-> px] : px \in {<<>>, <<"p">>}}
AppDefs == {[name |-> "app", apiProducts |-> ap, developerId |-> d] :
                ap \in {<<>>, <<"prod">>}, d \in {"", "dev-a"}}
EdgeData == [proxies : SeqsUpTo(ProxyDefs, 2), api_products : SeqsUpTo(ProductDefs, 1),
             apps : SeqsUpTo(AppDefs, 1)]

\* {k: v for k, v in dependencies.items() if v}
NonEmpty(d) == [k \in {x \in DOMAIN d : d[x] # <<>>} |-> d[k]]

\* the names of the policies of one type, each once, in order of first occurrence
RECURSIVE PolicyNames(_, _, _)
PolicyNames(policies, type, acc) ==
    IF policies = <<>> THEN acc
    ELSE LET policy == Head(policies)
             nm == IF type = "KeyValueMapOperations" THEN StripKvm(policy.name)
                   ELSE policy.name
             hit == policy.type = type /\ nm # "" /\ \A i \in 1..Len(acc) : acc[i] # nm
         IN  PolicyNames(Tail(policies), type, IF hit THEN Append(acc, nm) ELSE acc)

analyze_proxy_dependencies(proxy) ==
    NonEmpty([target_servers |-> proxy.target_servers,
              kvms |-> PolicyNames(proxy.policies, "KeyValueMapOperations", <<>>),
              shared_flows |-> PolicyNames(proxy.policies, "FlowCallout", <<>>)])

analyze_product_dependencies(product) == NonEmpty([proxies |-> product.proxies])

analyze_app_dependencies(app) ==
    NonEmpty([api_products |-> app.apiProducts, developer |-> <<app.developerId>>])

\* dependencies[name] = deps, for the resources whose deps is not empty, in the
\* order proxies, products, apps: a later resource of the same name overwrites
analyze_dependencies(ed) ==
    LET entries ==
            [i \in 1..Len(ed.proxies) |->
                [name |-> ed.proxies[i].name, deps |-> analyze_proxy_dependencies(ed.proxies[i])]]
            \o [i \in 1..Len(ed.api_products) |->
                [name |-> ed.api_products[i].name,
                 deps |-> analyze_product_dependencies(ed.api_products[i])]]
            \o [i \in 1..Len(ed.apps) |->
                [name |-> ed.apps[i].name, deps |-> analyze_app_dependencies(ed.apps[i])]]
        kept == {i \in 1..Len(entries) : DOMAIN entries[i].deps # {}}
        last(n) == CHOOSE i \in kept :
                        entries[i].name = n /\ \A j \in kept : entries[j].name = n => j <= i
    IN  [n \in {entries[i].name : i \in kept} |-> entries[last(n)].deps]

\* get_migration_order with the categories nothing depends on left out
get_migration_order_needed(deps) ==
    LET used == UNION {DOMAIN deps[n] : n \in DOMAIN deps}
    IN  SelectSeq(<<"target_servers", "kvms", "shared_flows", "proxies", "api_products",
                    "developers", "apps">>,
                  LAMBDA c : c \in used \cup {"proxies", "apps"})

get_migration_order(deps) ==
    <<"target_servers", "kvms", "shared_flows", "proxies", "api_products",
      "developers", "apps">>

\* the orders in which the parser can enumerate the resources of an export
Reorder(s) == {[i \in 1..Len(s) |-> s[p[i]]] : p \in Permutations(1..Len(s))}
Enumerations(ed) ==
    {[proxies |-> px, api_products |-> pr, apps |-> ap] :
        px \in Reorder(ed.proxies), pr \in Reorder(ed.api_products), ap \in Reorder(ed.apps)}

InitOrder ==
    /\ files = ExportOf({}) /\ appDev \in AppDevs(files)
    /\ dest = {} /\ log = {} /\ rewritten = {} /\ deployed = {}
    /\ edge_data \in EdgeData
    /\ dependencies = NotAnalyzed
    /\ order = <<>>
    /\ IdleAll /\ IdleRetry /\ IdleDirect /\ IdleEngine

\* GET /dependencies: parse the export, analyze it, order the categories
GetDependencies ==
    /\ \E ed \in Enumerations(edge_data) :
        /\ edge_data' = ed
        /\ dependencies' = [returned |-> TRUE, map |-> analyze_dependencies(ed)]
        /\ order' = get_migration_order(dependencies'.map)
    /\ UNCHANGED <<files, appDev, dest, log, rewritten, deployed, pc, pending, tasks,
                   queue, output, rt, hist, engine>>

NextOrder == GetDependencies
SpecOrder == InitOrder /\ [][NextOrder]_vars

(***************************************************************************)
(* MigrationEngine.run_full_migration (src/migration/migration_engine.py)  *)
(* and ApigeeXImporter.import_all (src/migration/x_importer.py).  The Edge *)
(* organisation and the Apigee X client are the environment: the export    *)
(* returns what the organisation holds, and every client call of the       *)
(* importer either returns or raises.                                      *)
(***************************************************************************)
\* the keys of the export, in the order export_all creates them
EdgeKeys == <<"proxies", "shared_flows", "target_servers", "kvms", "api_products",
              "developers", "developer_apps">>
EdgeKeySet == {EdgeKeys[i] : i \in 1..Len(EdgeKeys)}

\* an exported definition: a developer carries an email and no name
ItemNames == {"a", "b"}
Item(key, n) ==
    IF key = "developers" THEN [name |-> "", email |-> n \o "@x.io"]
    ELSE [name |-> n, email |-> ""]

\* what the Edge organisation holds: per key the names in listing order
Listings == {<<>>, <<"a">>, <<"b">>, <<"a", "b">>, <<"b", "a">>}
RECURSIVE SizeFrom(_, _)
SizeFrom(d, i) == IF i > Len(EdgeKeys) THEN 0 ELSE Len(d[EdgeKeys[i]]) + SizeFrom(d, i + 1)
Organisations == {d \in [EdgeKeySet -> Listings] : SizeFrom(d, 1) <= MaxResources}

NoData == [k \in EdgeKeySet |-> <<>>]
NoResults == [success |-> TRUE, imported |-> <<>>, failed |-> <<>>, skipped |-> <<>>]

\* MigrationJob as MigrationJobCreate leaves it; the timestamps are set or not
MigrationJob(dry_run) ==
    [status |-> "pending", dry_run |-> dry_run, resources |-> <<>>,
     total_resources |-> 0, completed_resources |-> 0, failed_resources |-> 0,
     started_at |-> FALSE, completed_at |-> FALSE]

\* MigrationEngine.__init__
MigrationEngine(org, dry_run) ==
    [step |-> "start", job |-> MigrationJob(dry_run), source |-> org,
     edge_data |-> NoData, x_data |-> NoData, import_results |-> NoResults,
     results |-> NoResults, attempts |-> <<>>]

\* EdgeExporter.export_all
export_all(org) == [k \in EdgeKeySet |-> [j \in 1..Len(org[k]) |-> Item(k, org[k][j])]]

\* item.get("name") or item.get("email", "unknown")
ResourceName(item) ==
    IF item.name # "" THEN item.name
    ELSE IF item.email # "" THEN item.email ELSE "unknown"

MigrationResource(resource_type, resource_name) ==
    [resource_type |-> resource_type, resource_name |-> resource_name,
     status |-> "in_progress", has_x_data |-> FALSE, errors |-> <<>>]

\* the resources of the keys EdgeKeys[i], EdgeKeys[i + 1], ... in dict order
RECURSIVE ResourcesFrom(_, _)
ResourcesFrom(data, i) ==
    IF i > Len(EdgeKeys) THEN <<>>
    ELSE [j \in 1..Len(data[EdgeKeys[i]]) |->
            MigrationResource(EdgeKeys[i], ResourceName(data[EdgeKeys[i]][j]))]
         \o ResourcesFrom(data, i + 1)

update_resources_from_export(job, data) ==
    LET resources == job.resources \o ResourcesFrom(data, 1)
    IN  [job EXCEPT !.resources = resources, !.total_resources = Len(resources)]

\* ResourceTransformer.transform_all: every definition is copied, its name kept
transform_all(data) ==
    [k \in EdgeKeySet |->
        [j \in 1..Len(data[k]) |-> [name |-> data[k][j].name, email |-> data[k][j].email]]]

\* item.get("name") or item.get("email") of a transformed definition
TransformedName(item) == IF item.name # "" THEN item.name ELSE item.email

update_resources_from_transform(job, x_data) ==
    [job EXCEPT !.resources =
        [i \in 1..Len(job.resources) |->
            LET resource == job.resources[i]
                list == IF resource.resource_type \in EdgeKeySet
                        THEN x_data[resource.resource_type] ELSE <<>>
            IN  [resource EXCEPT !.has_x_data =
                    \E j \in 1..Len(list) : TransformedName(list[j]) = resource.resource_name]]]

\* ImportOrder that imports the proxies before the shared flows they call
ImportOrderProxiesFirst ==
    <<[key |-> "target_servers", type |-> "target_server"],
      [key |-> "kvms", type |-> "kvm"],
      [key |-> "proxies", type |-> "proxy"],
      [key |-> "shared_flows", type |-> "shared_flow"],
      [key |-> "api_products", type |-> "api_product"],
      [key |-> "developers", type |-> "developer"],
      [key |-> "developer_apps", type |-> "app"]>>

\* the steps of import_all: the key of x_data and the type written to results
ImportOrder ==
    <<[key |-> "target_servers", type |-> "target_server"],
      [key |-> "kvms", type |-> "kvm"],
      [key |-> "shared_flows", type |-> "shared_flow"],
      [key |-> "proxies", type |-> "proxy"],
      [key |-> "api_products", type |-> "api_product"],
      [key |-> "developers", type |-> "developer"],
      [key |-> "developer_apps", type |-> "app"]>>

\* developer.get("email", "unknown") for developers, x.get("name", "unknown") else
ImportName(type, item) ==
    IF type = "developer" THEN (IF item.email # "" THEN item.email ELSE "unknown")
    ELSE (IF item.name # "" THEN item.name ELSE "unknown")

\* the import attempts of import_all, in the order it makes them
RECURSIVE Worklist(_, _, _)
Worklist(x_data, steps, i) ==
    IF i > Len(steps) THEN <<>>
    ELSE [j \in 1..Len(x_data[steps[i].key]) |->
            [type |-> steps[i].type, name |-> ImportName(steps[i].type, x_data[steps[i].key][j])]]
         \o Worklist(x_data, steps, i + 1)

\* import_one without the except clause: a raising definition is reported nowhere
import_one_unguarded(results, dry_run, entry, raises) ==
    IF dry_run
    THEN [results EXCEPT !.skipped = Append(@, [type |-> entry.type, name |-> entry.name,
                                                 reason |-> "dry_run"])]
    ELSE IF raises
    THEN results
    ELSE [results EXCEPT !.imported = Append(@, [type |-> entry.type, name |-> entry.name])]

\* the body of the loop of an import_* method for one definition
import_one(results, dry_run, entry, raises) ==
    IF dry_run
    THEN [results EXCEPT !.skipped = Append(@, [type |-> entry.type, name |-> entry.name,
                                                 reason |-> "dry_run"])]
    ELSE IF raises
    THEN [results EXCEPT !.failed = Append(@, [type |-> entry.type, name |-> entry.name,
                                                error |-> "exception"])]
    ELSE [results EXCEPT !.imported = Append(@, [type |-> entry.type, name |-> entry.name])]

\* resource_type.rstrip('s') on the keys of the export
RstripS(resource_type) ==
    CASE resource_type = "proxies" -> "proxie"
      [] resource_type = "shared_flows" -> "shared_flow"
      [] resource_type = "target_servers" -> "target_server"
      [] resource_type = "kvms" -> "kvm"
      [] resource_type = "api_products" -> "api_product"
      [] resource_type = "developers" -> "developer"
      [] resource_type = "developer_apps" -> "developer_app"
      [] OTHER -> resource_type

\* the status _update_resources_from_import gives one resource
ImportStatus(resource, import_results) ==
    LET key == <<RstripS(resource.resource_type), resource.resource_name>>
        imported == {<<import_results.imported[j].type, import_results.imported[j].name>> :
                        j \in 1..Len(import_results.imported)}
        failed == {<<import_results.failed[j].type, import_results.failed[j].name>> :
                        j \in 1..Len(import_results.failed)}
    IN  IF key \in imported THEN "success"
        ELSE IF key \in failed THEN "failed" ELSE "skipped"

\* failed[key]: the error of the last failed entry of that key
FailedError(resource, import_results) ==
    LET hit == {j \in 1..Len(import_results.failed) :
                    <<import_results.failed[j].type, import_results.failed[j].name>>
                    = <<RstripS(resource.resource_type), resource.resource_name>>}
    IN  import_results.failed[CHOOSE j \in hit : \A k \in hit : k <= j].error

\* update_resources_from_import that counts a skipped resource as completed
update_resources_counting_skipped(job, import_results) ==
    LET status(i) == ImportStatus(job.resources[i], import_results)
        all == 1..Len(job.resources)
    IN  [job EXCEPT
            !.resources = [i \in all |->
                IF status(i) = "failed"
                THEN [job.resources[i] EXCEPT !.status = "failed",
                        !.errors = Append(@, FailedError(job.resources[i], import_results))]
                ELSE [job.resources[i] EXCEPT !.status = status(i)]],
            !.completed_resources = @ + Cardinality({i \in all : status(i) # "failed"}),
            !.failed_resources = @ + Cardinality({i \in all : status(i) = "failed"})]

update_resources_from_import(job, import_results) ==
    LET status(i) == ImportStatus(job.resources[i], import_results)
        all == 1..Len(job.resources)
    IN  [job EXCEPT
            !.resources = [i \in all |->
                IF status(i) = "failed"
                THEN [job.resources[i] EXCEPT !.status = "failed",
                        !.errors = Append(@, FailedError(job.resources[i], import_results))]
                ELSE [job.resources[i] EXCEPT !.status = status(i)]],
            !.completed_resources = @ + Cardinality({i \in all : status(i) = "success"}),
            !.failed_resources = @ + Cardinality({i \in all : status(i) = "failed"})]

InitEngine ==
    /\ files = ExportOf({}) /\ appDev \in AppDevs(files)
    /\ dest = {} /\ log = {} /\ rewritten = {} /\ deployed = {}
    /\ \E org \in Organisations, dry_run \in BOOLEAN : engine = MigrationEngine(org, dry_run)
    /\ IdleAll /\ IdleRetry /\ IdleDirect /\ IdleAnalyzer

Others == <<files, appDev, dest, log, rewritten, deployed, pc, pending, tasks, queue,
            output, rt, hist, edge_data, dependencies, order>>

\* self.job.status = EXPORTING; self.job.started_at = now
Start ==
    /\ engine.step = "start"
    /\ engine' = [engine EXCEPT !.step = "exporting", !.job.status = "exporting",
                                !.job.started_at = TRUE]
    /\ UNCHANGED Others

\* step 1 returns: the export, the resources of the job; step 2 begins
Export ==
    /\ engine.step = "exporting"
    /\ LET data == export_all(engine.source)
           job == update_resources_from_export(engine.job, data)
       IN  engine' = [engine EXCEPT !.step = "transforming", !.edge_data = data,
                                    !.job = [job EXCEPT !.status = "transforming"]]
    /\ UNCHANGED Others

\* Transform that begins the import step for a dry run as well
TransformThenImport ==
    /\ engine.step = "transforming"
    /\ LET x_data == transform_all(engine.edge_data)
           job == update_resources_from_transform(engine.job, x_data)
       IN  engine' = [engine EXCEPT !.step = "importing", !.x_data = x_data,
                                    !.job = [job EXCEPT !.status = "importing"]]
    /\ UNCHANGED <<files, appDev, dest, log, rewritten, deployed, pc, pending, tasks,
                   queue, output, rt, hist, edge_data, dependencies, order>>

\* step 2 returns; step 3 begins, or step 4 for a dry run
Transform ==
    /\ engine.step = "transforming"
    /\ LET x_data == transform_all(engine.edge_data)
           job == update_resources_from_transform(engine.job, x_data)
           to == IF job.dry_run THEN "validating" ELSE "importing"
       IN  engine' = [engine EXCEPT !.step = to, !.x_data = x_data,
                                    !.job = [job EXCEPT !.status = to]]
    /\ UNCHANGED Others

\* import_all: the next definition is imported, or the client call raises
ImportItem ==
    /\ engine.step = "importing"
    /\ LET work == Worklist(engine.x_data, ImportOrder, 1)
           n == Len(engine.attempts) + 1
       IN  /\ n <= Len(work)
           /\ \E raises \in BOOLEAN :
                engine' = [engine EXCEPT
                    !.attempts = Append(@, work[n]),
                    !.results = import_one(@, engine.job.dry_run, work[n], raises)]
    /\ UNCHANGED Others

\* import_all returns; _update_resources_from_import; step 4 begins
ImportDone ==
    /\ engine.step = "importing"
    /\ Len(engine.attempts) = Len(Worklist(engine.x_data, ImportOrder, 1))
    /\ engine' = [engine EXCEPT
            !.step = "validating", !.import_results = engine.results,
            !.job = [update_resources_from_import(engine.job, engine.results)
                        EXCEPT !.status = "validating"]]
    /\ UNCHANGED Others

\* Validate that marks the resources the validator has a warning for
ValidateMarking ==
    /\ engine.step = "validating"
    /\ engine' = [engine EXCEPT !.step = "done", !.job.status = "completed",
                                !.job.completed_at = TRUE,
                                !.job.resources =
                                    [i \in 1..Len(@) |-> [@[i] EXCEPT !.status = "warning"]]]
    /\ UNCHANGED Others

\* step 4 returns: the job is completed
Validate ==
    /\ engine.step = "validating"
    /\ engine' = [engine EXCEPT !.step = "done", !.job.status = "completed",
                                !.job.completed_at = TRUE]
    /\ UNCHANGED Others

\* a step raises: except Exception ... raise
Raise ==
    /\ engine.step \in {"exporting", "transforming", "validating"}
    /\ engine' = [engine EXCEPT !.step = "raised", !.job.status = "failed",
                                !.job.completed_at = TRUE]
    /\ UNCHANGED Others

NextEngine == Start \/ Export \/ Transform \/ ImportItem \/ ImportDone \/ Validate \/ Raise
SpecEngine == InitEngine /\ [][NextEngine]_vars


(***************************************************************************)
(* The API products migrate_app submits for the credentials of an app.     *)
(***************************************************************************)
\* prod.get('apiproduct'): a product name; "" stands for an empty or absent one
ProductRefs == {"p", "q", ""}
\* cred.get('apiProducts', []) of one credential, data.get('credentials', [])
CredentialDefs == {[apiProducts |-> ap] : ap \in SeqsUpTo(ProductRefs, MaxCreds)}
CredentialLists == SeqsUpTo(CredentialDefs, MaxCreds)

\* the inner loop of one credential, products being the list built so far
RECURSIVE AddProducts(_, _)
AddProducts(api_products, refs) ==
    IF refs = <<>> THEN api_products
    ELSE LET prod_name == Head(refs)
             new == prod_name # "" /\ \A i \in 1..Len(api_products) : api_products[i] # prod_name
         IN  AddProducts(IF new THEN Append(api_products, prod_name) ELSE api_products,
                         Tail(refs))

\* extract_api_products that appends every reference it meets
RECURSIVE extract_every_reference(_, _)
extract_every_reference(api_products, credentials) ==
    IF credentials = <<>> THEN api_products
    ELSE extract_every_reference(
            api_products \o SelectSeq(Head(credentials).apiProducts, LAMBDA n : n # ""),
            Tail(credentials))

\* for cred in credentials: for prod in cred.get('apiProducts', []): ...
RECURSIVE extract_api_products(_, _)
extract_api_products(api_products, credentials) ==
    IF credentials = <<>> THEN api_products
    ELSE extract_api_products(AddProducts(api_products, Head(credentials).apiProducts),
                              Tail(credentials))

\* an app definition is loaded; hist holds the credentials and what is submitted
InitExtract ==
    /\ files = ExportOf({<<"apps", "a.json">>, <<"developers", "a.json">>})
    /\ appDev = [f \in JsonFiles |-> IF f = "a.json" THEN "dev-a" ELSE "dev-42"]
    /\ dest = {} /\ log = {} /\ rewritten = {} /\ deployed = {}
    /\ \E credentials \in CredentialLists :
        hist = <<[credentials |-> credentials, submitted |-> FALSE, apiProducts |-> <<>>]>>
    /\ IdleAll /\ IdleRetry /\ IdleAnalyzer /\ IdleEngine

\* app_data['apiProducts'] = api_products; MigrateResources.Migrate_app(...)
ExtractProducts ==
    /\ ~hist[1].submitted
    /\ hist' = <<[hist[1] EXCEPT !.submitted = TRUE,
                    !.apiProducts = extract_api_products(<<>>, hist[1].credentials)]>>
    /\ UNCHANGED <<files, appDev, dest, log, rewritten, deployed, pc, pending, tasks,
                   queue, output, rt, edge_data, dependencies, order, engine>>

NextExtract == ExtractProducts
SpecExtract == InitExtract /\ [][NextExtract]_vars


(***************************************************************************)
(* ApigeeXImporter on its own (src/migration/x_importer.py): import_all of *)
(* an importer built with or without dry_run, with its import_stats and    *)
(* the calls it makes on the Apigee X client.                              *)
(***************************************************************************)
\* the counter of import_stats an import_* method increments
StatKey(type) ==
    CASE type = "proxy" -> "proxies_imported"
      [] type = "shared_flow" -> "shared_flows_imported"
      [] type = "target_server" -> "target_servers_created"
      [] type = "kvm" -> "kvms_created"
      [] type = "api_product" -> "api_products_created"
      [] type = "developer" -> "developers_created"
      [] type = "app" -> "apps_created"
StatKeys == {StatKey(ImportOrder[i].type) : i \in 1..Len(ImportOrder)}

\* self.import_stats[...] += 1, reached when the client calls returned
count_one(import_stats, dry_run, entry, raises) ==
    IF ~dry_run /\ ~raises THEN [import_stats EXCEPT ![StatKey(entry.type)] = @ + 1]
    ELSE import_stats

\* the client is called for a definition unless the importer is a dry run
client_call(calls, dry_run, entry) == IF dry_run THEN calls ELSE Append(calls, entry)

\* ApigeeXImporter.__init__, and the x_data import_all is given
ApigeeXImporter(x_data, dry_run) ==
    [step |-> "import_all", dry_run |-> dry_run, x_data |-> x_data,
     results |-> NoResults, attempts |-> <<>>, raised |-> <<>>,
     import_stats |-> [k \in StatKeys |-> 0], calls |-> <<>>]

InitImport ==
    /\ files = ExportOf({}) /\ appDev \in AppDevs(files)
    /\ dest = {} /\ log = {} /\ rewritten = {} /\ deployed = {}
    /\ \E org \in Organisations, dry_run \in BOOLEAN :
        engine = ApigeeXImporter(transform_all(export_all(org)), dry_run)
    /\ IdleAll /\ IdleRetry /\ IdleDirect /\ IdleAnalyzer

\* one turn of the loop of an import_* method
ImportNext ==
    /\ engine.step = "import_all"
    /\ LET work == Worklist(engine.x_data, ImportOrder, 1)
           n == Len(engine.attempts) + 1
       IN  /\ n <= Len(work)
           /\ \E raises \in BOOLEAN :
                engine' = [engine EXCEPT
                    !.attempts = Append(@, work[n]),
                    !.raised = Append(@, raises /\ ~engine.dry_run),
                    !.calls = client_call(@, engine.dry_run, work[n]),
                    !.results = import_one(@, engine.dry_run, work[n], raises),
                    !.import_stats = count_one(@, engine.dry_run, work[n], raises)]
    /\ UNCHANGED Others

\* return results
ImportReturn ==
    /\ engine.step = "import_all"
    /\ Len(engine.attempts) = Len(Worklist(engine.x_data, ImportOrder, 1))
    /\ engine' = [engine EXCEPT !.step = "returned"]
    /\ UNCHANGED Others

NextImport == ImportNext \/ ImportReturn
SpecImport == InitImport /\ [][NextImport]_vars


(***************************************************************************)
(* migrate_multiple_resources (src/server.py): the handler of              *)
(* POST /migrate/multi-resource.  The configuration is present; the        *)
(* request is its list of resources and the deployment flag.  The frame of *)
(* the handler is kept in rt, what each turn of the loop did in hist, the  *)
(* response in output.                                                     *)
(***************************************************************************)
MaxEntries == 2

\* values of a request entry: a key that is absent (None), a name that is a number
Absent == ""
Number == "<number>"
Truthy(v) == v # Absent
\* Python's `a or b`
Or(a, b) == IF Truthy(a) THEN a ELSE b

\* normalize_map.get(resource_type)
normalize_map(resource_type) ==
    CASE resource_type \in {"target_server", "targetserver"} -> "targetserver"
      [] resource_type = "proxy" -> "proxy"
      [] resource_type \in {"shared_flow", "sharedflow"} -> "sharedflow"
      [] resource_type = "kvm" -> "kvm"
      [] resource_type \in {"api_product", "apiproduct"} -> "apiproduct"
      [] resource_type = "developer" -> "developer"
      [] resource_type = "app" -> "app"
      [] OTHER -> Absent

\* one entry of payload["resources"]
Resource(type, resource_type, name, resource_name, scope) ==
    [type |-> type, resource_type |-> resource_type, name |-> name,
     resource_name |-> resource_name, scope |-> scope]
\* the entries a request is made of
RequestEntries ==
    {Resource(t, Absent, "a.json", Absent, Absent) :
        t \in {"target_server", "kvm", "api_product", "developer", "app"}}
    \cup {Resource("kvm", Absent, "a.json", Absent, "org"),
          Resource("proxy", Absent, "a.zip", Absent, Absent),
          Resource("shared_flow", Absent, "a", Absent, Absent),
          Resource("sharedflow", Absent, "a.zip", Absent, Absent),
          Resource(Absent, "target_server", Absent, "b.json", Absent),
          Resource("policy", Absent, "a", Absent, Absent),
          Resource(Absent, Absent, "a", Absent, Absent),
          Resource("proxy", Absent, Absent, Absent, Absent),
          Resource("proxy", Absent, Number, Absent, Absent),
          Resource("developer", Absent, Number, Absent, Absent)}

\* the call the handler makes for a supported type
HandlerCall(normalized_type, resource_name, scope, deploy_after_migration) ==
    CASE normalized_type = "targetserver" -> Call("migrate_target_server", resource_name, "-", FALSE)
      [] normalized_type = "kvm" ->
            Call("migrate_kvm", resource_name, IF Truthy(scope) THEN scope ELSE "env", FALSE)
      [] normalized_type = "developer" -> Call("migrate_developer", resource_name, "-", FALSE)
      [] normalized_type = "apiproduct" -> Call("migrate_product", resource_name, "-", FALSE)
      [] normalized_type = "app" -> Call("migrate_app", resource_name, "-", FALSE)
      [] normalized_type = "proxy" ->
            Call("migrate_proxy", StripZip(resource_name), "-", deploy_after_migration)
      [] normalized_type = "sharedflow" ->
            Call("migrate_sharedflow", StripZip(resource_name), "-", deploy_after_migration)

\* the answers of the destination to the calls of one entry
HandlerEnvs(c) ==
    PoolEnvs(c.func)
    \cup (IF c.deploy
          THEN {Env(resp, lr, dr) : resp \in {r \in CreateResp : ~r.exc /\ r.status = 200},
                                    lr \in {l \in ListResp : l.revisions = {"1", "2"}},
                                    dr \in DeployResp}
          ELSE {})

\* a result the handler builds itself
HandlerResult(resource_type, resource_name, message, status_code) ==
    Result(resource_type, resource_name, status_code, FALSE, message)

\* the body of the loop for one entry: the result appended, the state left
MigrateEntry(w, fs, ad, resource, deploy_after_migration, env) ==
    LET resource_type == Or(resource.type, resource.resource_type)
        resource_name == Or(resource.name, resource.resource_name)
        normalized_type == normalize_map(resource_type)
    IN  IF ~Truthy(resource_type) \/ ~Truthy(resource_name)
        THEN Out(HandlerResult(resource_type, resource_name,
                               <<"Missing resource_type or resource_name">>, 400), w, <<>>)
        ELSE IF ~Truthy(normalized_type)
        THEN Out(HandlerResult(resource_type, resource_name,
                               <<"Unsupported resource type: ", resource_type>>, 400), w, <<>>)
        ELSE IF resource_name = Number
        THEN IF normalized_type \in {"proxy", "sharedflow"}
             \* resource_name.replace raises in the handler: except Exception
             THEN Out(HandlerResult(resource_type, resource_name,
                                    <<"Migration error: ", "exception">>, 500),
                      w, <<Sent("handler", 0)>>)
             \* the name raises inside the try of migrate_*
             ELSE Out(ErrorResult(normalized_type, resource_name), w, <<Sent("load", 0)>>)
        ELSE Invoke(w, fs, ad,
                    HandlerCall(normalized_type, resource_name, resource.scope,
                                deploy_after_migration), env)

\* the call of an entry, for the choice of the destination's answers
EntryCall(resource, deploy_after_migration) ==
    LET normalized_type == normalize_map(Or(resource.type, resource.resource_type))
        resource_name == Or(resource.name, resource.resource_name)
    IN  IF Truthy(normalized_type) /\ Truthy(resource_name) /\ resource_name # Number
        THEN HandlerCall(normalized_type, resource_name, resource.scope, deploy_after_migration)
        ELSE Call("migrate_target_server", "a.json", "-", FALSE)

\* the handler has read the payload: resources, deploy_after_migration
Frame(resources, deploy_after_migration) ==
    [step |-> "loop", resources |-> resources, next |-> 1,
     deploy_after_migration |-> deploy_after_migration,
     results |-> <<>>, successful_count |-> 0, failed_count |-> 0]

InitMulti ==
    /\ files = ExportOf(FileUniverse) /\ appDev = [f \in JsonFiles |-> "dev-a"]
    /\ dest = {} /\ log = {} /\ rewritten = {} /\ deployed = {}
    /\ \E resources \in SeqsUpTo(RequestEntries, MaxEntries), deploy \in BOOLEAN :
        rt = Frame(resources, deploy)
    /\ IdleAll /\ IdleDirect /\ IdleAnalyzer /\ IdleEngine

\* if not resources: raise HTTPException(status_code=400, ...)
RejectEmpty ==
    /\ rt.step = "loop" /\ rt.resources = <<>>
    /\ rt' = [rt EXCEPT !.step = "http_400"]
    /\ UNCHANGED <<files, appDev, dest, log, rewritten, deployed, pc, pending, tasks,
                   queue, output, hist, edge_data, dependencies, order, engine>>

\* MigrateNext that leaves the loop after a failed entry
MigrateNextOrBreak ==
    /\ rt.step = "loop" /\ rt.resources # <<>>
    /\ rt.next <= Len(rt.resources)
    /\ LET resource == rt.resources[rt.next]
       IN  \E env \in HandlerEnvs(EntryCall(resource, rt.deploy_after_migration)) :
            LET out == MigrateEntry(W, files, appDev, resource,
                                    rt.deploy_after_migration, env)
            IN  /\ rt' = [rt EXCEPT
                        !.next = IF out.result.success THEN @ + 1 ELSE Len(rt.resources) + 1,
                        !.results = Append(@, out.result),
                        !.successful_count = IF out.result.success THEN @ + 1 ELSE @,
                        !.failed_count = IF out.result.success THEN @ ELSE @ + 1]
                /\ hist' = Append(hist, [resource |-> resource, sent |-> out.sent])
                /\ SetWorld(out.world)
    /\ UNCHANGED <<files, appDev, pc, pending, tasks, queue, output,
                   edge_data, dependencies, order, engine>>

\* one turn of `for resource in resources`
MigrateNext ==
    /\ rt.step = "loop" /\ rt.resources # <<>>
    /\ rt.next <= Len(rt.resources)
    /\ LET resource == rt.resources[rt.next]
       IN  \E env \in HandlerEnvs(EntryCall(resource, rt.deploy_after_migration)) :
            LET out == MigrateEntry(W, files, appDev, resource,
                                    rt.deploy_after_migration, env)
            IN  /\ rt' = [rt EXCEPT
                        !.next = @ + 1,
                        !.results = Append(@, out.result),
                        !.successful_count = IF out.result.success THEN @ + 1 ELSE @,
                        !.failed_count = IF out.result.success THEN @ ELSE @ + 1]
                /\ hist' = Append(hist, [resource |-> resource, sent |-> out.sent])
                /\ SetWorld(out.world)
    /\ UNCHANGED <<files, appDev, pc, pending, tasks, queue, output,
                   edge_data, dependencies, order, engine>>

\* the loop is over: return {...}
Respond ==
    /\ rt.step = "loop" /\ rt.resources # <<>>
    /\ rt.next > Len(rt.resources)
    /\ rt' = [rt EXCEPT !.step = "returned"]
    /\ output' = [success |-> TRUE, total_resources |-> Len(rt.resources),
                  successful_migrations |-> rt.successful_count,
                  failed_migrations |-> rt.failed_count,
                  results |-> rt.results]
    /\ UNCHANGED <<files, appDev, dest, log, rewritten, deployed, pc, pending, tasks,
                   queue, hist, edge_data, dependencies, order, engine>>

NextMulti == RejectEmpty \/ MigrateNext \/ Respond
SpecMulti == InitMulti /\ [][NextMulti]_vars

(***************************************************************************)
(* Properties.                                                             *)
(***************************************************************************)
\* the result of an existence gate: 409 and "... already exists"
AlreadyExists(r) ==
    r.status_code = 409 /\ ~r.success /\ Contains(r.message, "' already exists")

\* the resource type and name a call reports in its result
IdentityOf(c) ==
    <<CASE c.func = "migrate_target_server" -> "targetserver"
        [] c.func = "migrate_kvm" -> "kvm"
        [] c.func = "migrate_developer" -> "developer"
        [] c.func = "migrate_product" -> "apiproduct"
        [] c.func = "migrate_app" -> "app"
        [] c.func = "migrate_proxy" -> "proxy"
        [] c.func = "migrate_sharedflow" -> "sharedflow",
      c.arg>>
Enumerated == {p \in DirSet \X (JsonFiles \cup ZipFiles) : p[2] \in files[p[1]]}
Returned == pc = Len(SubmitOrder) + 2

\* C1: when migrate_all has returned, details holds as many results as there
\* are enumerated resources, summary.total is that number, and every resource
\* identity occurs among the results as often as it was enumerated.
C1_Completeness ==
    Returned =>
        /\ Len(output.details) = Cardinality(Enumerated)
        /\ output.total = Cardinality(Enumerated)
        /\ \A p \in Enumerated :
            LET id == IdentityOf(TaskCall(p[1], p[2]))
            IN  Cardinality({i \in 1..Len(output.details) :
                                <<output.details[i].resource_type,
                                  output.details[i].resource_name>> = id})
                = Cardinality({q \in Enumerated : IdentityOf(TaskCall(q[1], q[2])) = id})
C1_Witness ==
    /\ Returned
    /\ Len(output.details) = 2
    /\ output.details[1].resource_type = "kvm" /\ output.details[2].resource_type = "kvm"
    /\ output.details[1].success /\ ~output.details[2].success

RetryDone == rt.thread.done /\ rt.thread.retries >= 1
AllFailed == \A k \in 1..Len(rt.outs) : ~rt.outs[k].success

\* C2: a function that fails on every attempt is invoked exactly `retries`
\* times, and the result is its last failure with the retry note appended once.
C2_RetryBound ==
    (RetryDone /\ AllFailed) =>
        /\ Len(rt.outs) = rt.thread.retries
        /\ rt.thread.ret = [rt.outs[rt.thread.retries] EXCEPT
                                !.message = @ \o <<RetryNote(rt.thread.retries)>>]
        /\ Count(rt.thread.ret.message, RetryNote(rt.thread.retries)) = 1
C2_Witness ==
    /\ RetryDone /\ AllFailed /\ rt.thread.retries = 3
    /\ rt.outs[1].status_code = 500 /\ rt.outs[3].status_code = 500

\* C3: a function that returns AlreadyExists (409) on its first attempt is
\* invoked once and its result is returned without the retry note.
C3_ShortCircuit ==
    (RetryDone /\ AlreadyExists(rt.outs[1])) =>
        /\ Len(rt.outs) = 1
        /\ rt.thread.ret = rt.outs[1]

\* C4: an app whose developerId matches no developer record gets a failed
\* result with status 400 and "Developer not found", after exactly one attempt.
C4_MissingDeveloper ==
    (/\ RetryDone
     /\ rt.thread.call.func = "migrate_app"
     /\ rt.thread.call.arg \in files["apps"]
     /\ DeveloperEmailOf(files, appDev[rt.thread.call.arg]) = "") =>
        /\ ~rt.thread.ret.success
        /\ rt.thread.ret.status_code = 400
        /\ Contains(rt.thread.ret.message, "Developer not found for app ")
        /\ Len(rt.outs) = 1

\* C5: when the same migration is called twice in a row, the first call
\* succeeded against a destination that did not hold the resource and the
\* destination answers every call of the second, the second call returns
\* AlreadyExists without sending a create call.
C5_Idempotent ==
    \A i \in 1..(Len(hist) - 1) :
        (/\ hist[i].call = hist[i + 1].call
         /\ ~hist[i].held
         /\ hist[i].result.success
         /\ \A k \in 1..Len(hist[i + 1].sent) : hist[i + 1].sent[k].status # 0) =>
            /\ AlreadyExists(hist[i + 1].result)
            /\ hist[i + 1].sent = <<>>

\* C6: the wrapper invokes the function at least once and at most `retries`
\* times; when the first success is on attempt k, it is invoked k times and that
\* result is returned unchanged.
C6_FirstSuccess ==
    /\ Len(rt.outs) <= rt.thread.retries
    /\ RetryDone =>
        /\ Len(rt.outs) >= 1
        /\ \A k \in 1..Len(rt.outs) :
            (rt.outs[k].success /\ \A j \in 1..(k - 1) : ~rt.outs[j].success) =>
                /\ Len(rt.outs) = k
                /\ rt.thread.ret = rt.outs[k]
C6_Witness ==
    /\ RetryDone /\ rt.thread.retries = 3
    /\ Len(rt.outs) = 2 /\ ~rt.outs[1].success /\ rt.outs[2].success

FixedOrder == <<"target_servers", "kvms", "shared_flows", "proxies", "api_products",
                "developers", "apps">>

\* C7: whatever the dependency map and the enumeration order, the migration
\* order returned is target_servers, kvms, shared_flows, proxies, api_products,
\* developers, apps.
C7_FixedOrder == dependencies.returned => order = FixedOrder
C7_Witness ==
    /\ dependencies.returned
    /\ Len(edge_data.proxies) = 2
    /\ edge_data.proxies[1].name = "q" /\ edge_data.proxies[2].name = "p"
    /\ "p" \in DOMAIN dependencies.map /\ "app" \in DOMAIN dependencies.map

\* the category of get_migration_order a call belongs to
CategoryOf(c) ==
    CASE c.func = "migrate_target_server" -> "target_servers"
      [] c.func = "migrate_kvm" -> "kvms"
      [] c.func = "migrate_sharedflow" -> "shared_flows"
      [] c.func = "migrate_proxy" -> "proxies"
      [] c.func = "migrate_product" -> "api_products"
      [] c.func = "migrate_developer" -> "developers"
      [] c.func = "migrate_app" -> "apps"
Rank(cat) == CHOOSE i \in 1..Len(FixedOrder) : FixedOrder[i] = cat

\* C8: tasks are submitted category by category in the resolver's order: no
\* task is submitted after a task of a later category.
C8_SubmitOrder ==
    \A i, j \in 1..Len(tasks) :
        i < j => Rank(CategoryOf(tasks[i].thread.call)) <= Rank(CategoryOf(tasks[j].thread.call))

DeployFailedAt(i, func) ==
    /\ hist[i].call.func = func
    /\ hist[i].call.deploy
    /\ Len(hist[i].sent) = 2
    /\ hist[i].sent[1] = Sent("create", 200)
    /\ hist[i].sent[2].op = "deploy" /\ hist[i].sent[2].status # 200

\* C9: when the import answers 200 and the requested deployment fails, the
\* result is a success with status 200, its message holds "migrated
\* successfully" and "deployment failed", and its deployment status is failed.
C9_DeployIndependent ==
    \A i \in 1..Len(hist) :
        \A func \in {"migrate_proxy", "migrate_sharedflow"} :
            DeployFailedAt(i, func) =>
                /\ hist[i].result.success
                /\ hist[i].result.status_code = 200
                /\ \/ Contains(hist[i].result.message, "Proxy migrated successfully")
                   \/ Contains(hist[i].result.message, "Shared Flow migrated successfully")
                /\ Contains(hist[i].result.message, " but deployment failed: ")
                /\ hist[i].result.deployment_status = "failed"
C9_Witness ==
    /\ Len(hist) = 2
    /\ DeployFailedAt(1, "migrate_proxy") /\ hist[1].sent[2].status = 500
    /\ DeployFailedAt(2, "migrate_sharedflow") /\ hist[2].sent[2].status = 0

\* C10: summary.total is the number of results, summary.success the number of
\* successful ones, and summary.failed counts the results that are neither a
\* success nor AlreadyExists.
C10_Aggregation ==
    Returned =>
        /\ output.total = Len(output.details)
        /\ output.success =
            Cardinality({i \in 1..Len(output.details) : output.details[i].success})
        /\ output.failed =
            Cardinality({i \in 1..Len(output.details) :
                            /\ ~output.details[i].success
                            /\ ~AlreadyExists(output.details[i])})

\* a result the retry wrapper returned after its last attempt failed
Exhausted(r) == ~r.success /\ Contains(r.message, RetryNote(DefaultRetries))

\* C11: whatever the destination answers to the calls of the run, migrate_all
\* eventually returns, with one result in details for every enumerated
\* resource and a summary that counts them all.
C11_Completion ==
    <>(/\ Returned
       /\ Len(output.details) = Cardinality(Enumerated)
       /\ output.total = Cardinality(Enumerated)
       /\ output.success + output.failed = output.total)
C11_Witness ==
    /\ Returned
    /\ Len(output.details) = 2
    /\ Exhausted(output.details[1]) /\ output.details[1].status_code = 500
    /\ Contains(output.details[1].message, "Error: ")
    /\ output.details[2].success

\* the existence check of call c finds the resource, once the definition that
\* names the resource is loaded
GateFinds(w, fs, ad, c) ==
    CASE c.func = "migrate_target_server" -> resource_exists(w, "targetserver", StripJson(c.arg))
      [] c.func = "migrate_kvm" -> resource_exists(w, "kvm", StripJson(c.arg))
      [] c.func = "migrate_developer" ->
            c.arg \in fs["developers"] /\ resource_exists(w, "developer", DevEmail(c.arg))
      [] c.func = "migrate_product" ->
            c.arg \in fs["apiproducts"] /\ resource_exists(w, "apiproduct", StripJson(c.arg))
      [] c.func = "migrate_app" ->
            /\ c.arg \in fs["apps"]
            /\ DeveloperEmailOf(fs, ad[c.arg]) # ""
            /\ Key("app", AppKeyName(DeveloperEmailOf(fs, ad[c.arg]), StripJson(c.arg))) \in w.dest
      [] c.func = "migrate_proxy" -> resource_exists(w, "proxy", c.arg)
      [] c.func = "migrate_sharedflow" -> resource_exists(w, "sharedflow", c.arg)

\* C12: a call whose existence check finds the resource at the destination
\* (the load of the definition did not raise before the check) returns 409
\* with success false, and it has made no create, import or deploy call and no
\* rewrite of the product file: the destination, the rewritten files and the
\* deployments are as they were before the call.
C12_ExistenceGate ==
    [][(Len(hist') = Len(hist) + 1
        /\ GateFinds(W, files, appDev, hist'[Len(hist')].call)
        /\ ~Contains(hist'[Len(hist')].sent, Sent("load", 0))) =>
            /\ hist'[Len(hist')].result.status_code = 409
            /\ ~hist'[Len(hist')].result.success
            /\ hist'[Len(hist')].sent = <<>>
            /\ dest' = dest /\ rewritten' = rewritten /\ deployed' = deployed]_vars
C12_Witness ==
    /\ Len(hist) = 2
    /\ hist[1].call.func = "migrate_proxy" /\ hist[1].result.success
    /\ hist[2].call = Call("migrate_proxy", "a", "-", TRUE)
    /\ AlreadyExists(hist[2].result) /\ hist[2].sent = <<>>

\* C13: at most MaxWorkers tasks are executing at any time; every other
\* submitted task is either finished or waiting in the executor's queue, and
\* a waiting task has not been started.
C13_BoundedPool ==
    /\ Cardinality(Running) <= MaxWorkers
    /\ \A i \in 1..Len(tasks) :
        tasks[i].state = "queued" <=> \E k \in 1..Len(queue) : queue[k] = i
    /\ \A k \in 1..Len(queue) : tasks[queue[k]].thread.attempt = 0
C13_Witness ==
    /\ Len(tasks) > MaxWorkers
    /\ Cardinality(Running) = MaxWorkers
    /\ queue # <<>>
    /\ \A i \in 1..Len(tasks) : tasks[i].state # "done"

\* an invocation in which the load, the transformation or the submission of
\* the resource raised
RaisedIn(sent) ==
    \E k \in 1..Len(sent) : sent[k].status = 0 /\ sent[k].op # "deploy"

\* C14: an invocation of a migrate_* operation that raised while loading,
\* transforming or submitting the resource returned a result with success
\* false, status 500 and "Error: " followed by the exception text; when every
\* invocation raised, the wrapper made `retries` invocations and returned the
\* last of these results with the retry note.
C14_ExceptionResult ==
    /\ \A k \in 1..Len(rt.outs) :
        RaisedIn(rt.sents[k]) =>
            /\ ~rt.outs[k].success
            /\ rt.outs[k].status_code = 500
            /\ rt.outs[k].message = <<"Error: ", "exception">>
    /\ (RetryDone /\ \A k \in 1..Len(rt.outs) : RaisedIn(rt.sents[k])) =>
            /\ Len(rt.outs) = rt.thread.retries
            /\ rt.thread.ret.status_code = 500 /\ ~rt.thread.ret.success
            /\ rt.thread.ret.message = <<"Error: ", "exception", RetryNote(rt.thread.retries)>>
C14_Witness ==
    /\ RetryDone /\ rt.thread.retries = 3
    /\ rt.thread.call.func = "migrate_product"
    /\ rt.sents = <<<<Sent("rewrite", 0)>>, <<Sent("rewrite", 1), Sent("create", 0)>>,
                    <<Sent("rewrite", 0)>>>>

\* C15: a migrate_target_server call whose create call was answered reports
\* success exactly when the status is 200 or 201, and otherwise a failure
\* whose message carries the response body.
C15_TargetServerClassification ==
    \A i \in 1..Len(hist) :
        (/\ hist[i].call.func = "migrate_target_server"
         /\ Len(hist[i].sent) = 1
         /\ hist[i].sent[1].op = "create" /\ hist[i].sent[1].status # 0) =>
            /\ hist[i].result.status_code = hist[i].sent[1].status
            /\ hist[i].result.success <=> hist[i].sent[1].status \in {200, 201}
            /\ ~hist[i].result.success =>
                    /\ Len(hist[i].result.message) = 2
                    /\ hist[i].result.message[1] = "Migration failed: "
                    /\ hist[i].result.message[2] \in {"error", "duplicate"}

\* C16: for every result a migrate_* call returned, whatever its outcome, the
\* migration log holds the line built from its resource type, resource name,
\* status code and message.
C16_LogPerResult ==
    \A i \in 1..Len(hist) : LogLine(hist[i].result) \in log

\* the revision a deployment without a revision must use for lookup answer lr
Resolved(lr, rev) ==
    IF ~lr.exc /\ lr.status = 200 /\ lr.revisions # {}
    THEN rev \in lr.revisions /\ \A other \in lr.revisions : RevInt(other) <= RevInt(rev)
    ELSE rev = "1"

\* C17: a deployment requested without a revision, whose deployment call was
\* answered, addresses the highest integer revision of the list-revisions
\* answer, and revision "1" when that lookup answered another status than 200,
\* raised or listed nothing; the deployment succeeds exactly when the
\* deployment call answers 200, whatever the lookup did.
C17_RevisionResolution ==
    \A i \in 1..Len(hist) :
        (/\ hist[i].call.revision = "1"
         /\ hist[i].sent[1].status # 0) =>
            /\ \E rev \in {RevStr(n) : n \in 1..MaxRev} :
                /\ Resolved(hist[i].lookup, rev)
                /\ hist[i].result.resource_name = DeployName(hist[i].call.name, rev)
                /\ hist[i].result.success =>
                        <<hist[i].call.kind, hist[i].call.name, rev>> \in deployed
            /\ hist[i].result.success <=> hist[i].sent[1].status = 200
            /\ hist[i].result.status_code = hist[i].sent[1].status
C17_Witness ==
    /\ Len(hist) = 2
    /\ hist[1].call = [kind |-> "proxy", name |-> "a", revision |-> "1"]
    /\ hist[1].lookup.revisions = {"2", RevStr(MaxRev)}
    /\ hist[1].result.success
    /\ hist[1].result.resource_name = DeployName("a", RevStr(MaxRev))
    /\ hist[2].call = [kind |-> "sharedflow", name |-> "a", revision |-> "1"]
    /\ hist[2].lookup.exc /\ hist[2].result.success
    /\ hist[2].result.resource_name = "a (rev 1)"

\* C18: a migrate_kvm call returns AlreadyExists, without a create call,
\* exactly when the destination held a key value map of that name at the
\* scope of the call (organisation for "org", environment for "env").
C18_KvmScope ==
    \A i \in 1..Len(hist) :
        hist[i].call.func = "migrate_kvm" =>
            ((AlreadyExists(hist[i].result) /\ hist[i].sent = <<>>) <=> hist[i].held)

Terminal == {"success", "failed", "skipped"}

\* C19: in a run of the engine no resource record is dropped, a resource's
\* status changes only from in_progress to one of success, failed and skipped,
\* and a resource that holds one of these three keeps it in every later step.
C19_TerminalStatus ==
    [][/\ Len(engine'.job.resources) >= Len(engine.job.resources)
       /\ \A i \in 1..Len(engine.job.resources) :
            LET before == engine.job.resources[i].status
                after == engine'.job.resources[i].status
            IN  /\ before \in Terminal => after = before
                /\ after # before => before = "in_progress" /\ after \in Terminal]_vars
C19_Witness ==
    /\ engine.step = "done"
    /\ Len(engine.job.resources) = 2
    /\ engine.job.resources[1].status = "success"
    /\ engine.job.resources[2].status = "failed"

\* the order of the claim: the types a proxy, a product or an app refers to
\* come before it
DependencyOrder == <<"target_server", "kvm", "shared_flow", "proxy", "api_product",
                     "developer", "app">>
TypeRank(type) == CHOOSE i \in 1..Len(DependencyOrder) : DependencyOrder[i] = type

\* C20: the import attempts are made one after the other in the order target
\* servers, KVMs, shared flows, proxies, API products, developers, apps: no
\* attempt follows an attempt of a later type, and when import_all has
\* returned every definition of the transformed data was attempted once.
C20_ImportOrder ==
    /\ \A i, j \in 1..Len(engine.attempts) :
        i < j => TypeRank(engine.attempts[i].type) <= TypeRank(engine.attempts[j].type)
    /\ Len(engine.results.imported) + Len(engine.results.failed)
            + Len(engine.results.skipped) = Len(engine.attempts)
    /\ engine.step \in {"validating", "done"} /\ ~engine.job.dry_run =>
            Len(engine.attempts) = SizeFrom(engine.x_data, 1)
C20_Witness ==
    /\ engine.step = "done"
    /\ Len(engine.attempts) = 2
    /\ engine.attempts[1].type = "shared_flow" /\ engine.attempts[2].type = "proxy"
    /\ Len(engine.results.failed) = 1 /\ engine.results.failed[1].type = "shared_flow"

\* the product references of the credentials, in the order they are met
RECURSIVE References(_)
References(credentials) ==
    IF credentials = <<>> THEN <<>>
    ELSE Head(credentials).apiProducts \o References(Tail(credentials))
FirstAt(seq, x) == CHOOSE i \in 1..Len(seq) : seq[i] = x /\ \A j \in 1..(i - 1) : seq[j] # x

\* C21: the submitted apiProducts list holds every non-empty product name the
\* credentials reference exactly once, holds no other name, and lists the
\* names in the order of their first reference.
C21_ProductExtraction ==
    hist[1].submitted =>
        LET refs == References(hist[1].credentials)
            out == hist[1].apiProducts
        IN  /\ \A k \in 1..Len(refs) :
                refs[k] # "" => Cardinality({i \in 1..Len(out) : out[i] = refs[k]}) = 1
            /\ \A i \in 1..Len(out) :
                out[i] # "" /\ \E k \in 1..Len(refs) : refs[k] = out[i]
            /\ \A i, j \in 1..Len(out) :
                i < j => FirstAt(refs, out[i]) < FirstAt(refs, out[j])
C21_Witness ==
    /\ hist[1].submitted
    /\ Len(hist[1].credentials) = 2
    /\ hist[1].credentials[1].apiProducts = <<"q", "">>
    /\ hist[1].credentials[2].apiProducts = <<"p", "q">>
    /\ hist[1].apiProducts = <<"q", "p">>

\* the definition names no other resource
NamesNothing(kind, def) ==
    CASE kind = "proxy" ->
            /\ def.target_servers = <<>>
            /\ \A i \in 1..Len(def.policies) :
                def.policies[i].type \notin {"KeyValueMapOperations", "FlowCallout"}
      [] kind = "api_product" -> def.proxies = <<>>
      [] kind = "app" -> def.apiProducts = <<>> /\ def.developerId = ""
\* the definitions of the analyzed data, with their kind
Analyzed ==
    {<<"proxy", edge_data.proxies[i]>> : i \in 1..Len(edge_data.proxies)}
    \cup {<<"api_product", edge_data.api_products[i]>> : i \in 1..Len(edge_data.api_products)}
    \cup {<<"app", edge_data.apps[i]>> : i \in 1..Len(edge_data.apps)}

\* C22: once analyze_dependencies has returned its map, a name whose
\* definitions all name no other resource has no entry in it that holds a
\* non-empty list of names.
C22_NothingForNothing ==
    dependencies.returned =>
        \A n \in {d[2].name : d \in Analyzed} :
            (\A d \in Analyzed : d[2].name = n => NamesNothing(d[1], d[2])) =>
                \/ n \notin DOMAIN dependencies.map
                \/ \A k \in DOMAIN dependencies.map[n] : dependencies.map[n][k] = <<>>

\* the source file a call loads as the definition of its resource
OwnFile(c) ==
    CASE c.func = "migrate_target_server" -> <<"targetservers", c.arg>>
      [] c.func = "migrate_kvm" -> <<IF c.scope = "env" THEN "kvm_env" ELSE "kvm_org", c.arg>>
      [] c.func = "migrate_developer" -> <<"developers", c.arg>>
      [] c.func = "migrate_app" -> <<"apps", c.arg>>
      [] c.func = "migrate_product" -> <<"apiproducts", c.arg>>
      [] c.func = "migrate_proxy" -> <<"proxies", ZipOf(c.arg)>>
      [] c.func = "migrate_sharedflow" -> <<"sharedflows", ZipOf(c.arg)>>
\* the source files a call writes: a product migration rewrites its own file
WrittenBy(c) == IF c.func = "migrate_product" THEN {<<"apiproducts", c.arg>>} ELSE {}

\* C23: no source file is handed to two tasks, every enumerated file has its
\* task once the submission is over, no two executing tasks write the same
\* file, and no executing task writes the file another executing task loads
\* as its definition; the files rewritten are product files of the export.
C23_OneTaskPerFile ==
    /\ \A i, j \in 1..Len(tasks) :
        i # j => OwnFile(tasks[i].thread.call) # OwnFile(tasks[j].thread.call)
    /\ pc > Len(SubmitOrder) =>
        \A p \in Enumerated : \E i \in 1..Len(tasks) : OwnFile(tasks[i].thread.call) = p
    /\ \A i, j \in Running :
        i # j => WrittenBy(tasks[i].thread.call)
                    \cap (WrittenBy(tasks[j].thread.call) \cup {OwnFile(tasks[j].thread.call)})
                 = {}
    /\ rewritten \subseteq files["apiproducts"]
C23_Witness ==
    /\ Len(tasks) = 2 /\ Running = {1, 2}
    /\ tasks[1].thread.call.func = "migrate_app"
    /\ tasks[2].thread.call.func = "migrate_product"
    /\ tasks[2].thread.attempt = 1
    /\ rewritten = {"a.json"}

\* C24: a deployment whose deployment call was answered addresses the revision
\* the caller gave, for every revision including "1": the result names that
\* revision and a successful deployment deploys that revision and no other.
C24_RequestedRevision ==
    \A i \in 1..Len(hist) :
        hist[i].sent[1].status # 0 =>
            /\ hist[i].result.resource_name
                    = DeployName(hist[i].call.name, hist[i].call.revision)
            /\ hist[i].result.success =>
                    <<hist[i].call.kind, hist[i].call.name, hist[i].call.revision>> \in deployed

\* the type the importer reports for the definitions of a key of the export
ReportedType(key) ==
    CASE key = "proxies" -> "proxy"
      [] key = "shared_flows" -> "shared_flow"
      [] key = "target_servers" -> "target_server"
      [] key = "kvms" -> "kvm"
      [] key = "api_products" -> "api_product"
      [] key = "developers" -> "developer"
      [] key = "developer_apps" -> "app"
\* the importer reported the resource in the list (imported or failed)
ReportedIn(list, resource) ==
    \E j \in 1..Len(list) :
        /\ list[j].type = ReportedType(resource.resource_type)
        /\ list[j].name = resource.resource_name
AfterImport == engine.step \in {"validating", "done", "raised"} /\ engine.attempts # <<>>

\* C25: after the import step of a run, every resource of the job the importer
\* reported as imported has status success, and every resource it reported as
\* failed has status failed and carries the error, whatever its type.
C25_ImportOutcomes ==
    AfterImport =>
        \A i \in 1..Len(engine.job.resources) :
            LET resource == engine.job.resources[i]
            IN  /\ ReportedIn(engine.import_results.imported, resource) =>
                        resource.status = "success"
                /\ ReportedIn(engine.import_results.failed, resource) =>
                        resource.status = "failed" /\ resource.errors = <<"exception">>

\* the status changes run_full_migration may make, for a job with the flag
StatusMoves(dry_run) ==
    {<<"pending", "exporting">>, <<"exporting", "transforming">>,
     <<"validating", "completed">>}
    \cup (IF dry_run THEN {<<"transforming", "validating">>}
          ELSE {<<"transforming", "importing">>, <<"importing", "validating">>})
    \cup {<<s, "failed">> : s \in {"exporting", "transforming", "importing", "validating"}}

\* C26: the job status of a run only moves pending, exporting, transforming,
\* importing, validating, completed, or to failed from a step in progress; a
\* dry run never has status importing and never calls the importer; the status
\* is failed exactly when the run has raised to its caller, and completed_at
\* is set exactly when the status is completed or failed.
C26_StatusSequence ==
    /\ [](/\ engine.job.dry_run =>
                engine.job.status # "importing" /\ engine.attempts = <<>>
          /\ engine.job.status = "failed" <=> engine.step = "raised"
          /\ engine.job.completed_at <=> engine.job.status \in {"completed", "failed"})
    /\ [][engine'.job.status # engine.job.status =>
            <<engine.job.status, engine'.job.status>> \in StatusMoves(engine.job.dry_run)]_vars
C26_Witness ==
    /\ engine.job.dry_run /\ engine.job.status = "completed" /\ engine.job.completed_at
    /\ Len(engine.job.resources) = 2
    /\ engine.attempts = <<>>

\* C27: whenever the job status is completed, for a dry run as for a full
\* run, every resource of the job has status success, failed or skipped.
C27_CompletedIsFinished ==
    engine.job.status = "completed" =>
        \A i \in 1..Len(engine.job.resources) : engine.job.resources[i].status \in Terminal

\* the number of resources of the job that hold the status
WithStatus(status) ==
    Cardinality({i \in 1..Len(engine.job.resources) : engine.job.resources[i].status = status})

\* C28: in every state of a run completed_resources is the number of resources
\* with status success, failed_resources the number with status failed, their
\* sum is at most total_resources, and total_resources is the number of
\* resource records (none before the export, all of them after it).
C28_CountersMatch ==
    /\ engine.job.completed_resources = WithStatus("success")
    /\ engine.job.failed_resources = WithStatus("failed")
    /\ engine.job.completed_resources + engine.job.failed_resources
            <= engine.job.total_resources
    /\ engine.job.total_resources = Len(engine.job.resources)
    /\ engine.step \notin {"start", "exporting", "raised"} =>
            engine.job.total_resources = SizeFrom(engine.edge_data, 1)
C28_Witness ==
    /\ engine.step = "done"
    /\ engine.job.total_resources = 2
    /\ engine.job.completed_resources = 1
    /\ engine.job.failed_resources = 1

\* the number of entries of the list with the type and the name
Entries(list, type, name) ==
    Cardinality({j \in 1..Len(list) : list[j].type = type /\ list[j].name = name})
\* the number of entries of the list with the type
EntriesOfType(list, type) == Cardinality({j \in 1..Len(list) : list[j].type = type})
\* the definitions import_all was given, as the importer names them
Given == Worklist(engine.x_data, ImportOrder, 1)

\* C29: when import_all has returned, every definition it was given is in
\* exactly one of imported, failed and skipped; a definition whose client call
\* raised is in failed and the definitions after it were still attempted; an
\* importer built with dry_run has every definition in skipped and made no
\* client call; and each counter of import_stats is the number of imported
\* entries of its type.
C29_ImporterBookkeeping ==
    /\ \A n \in 1..Len(engine.attempts) :
        engine.raised[n] =>
            Entries(engine.results.failed, engine.attempts[n].type, engine.attempts[n].name) = 1
    /\ \A i \in 1..Len(ImportOrder) :
        engine.import_stats[StatKey(ImportOrder[i].type)]
            = EntriesOfType(engine.results.imported, ImportOrder[i].type)
    /\ engine.dry_run => engine.calls = <<>>
    /\ engine.step = "returned" =>
        /\ engine.attempts = Given
        /\ \A n \in 1..Len(Given) :
            Entries(engine.results.imported, Given[n].type, Given[n].name)
              + Entries(engine.results.failed, Given[n].type, Given[n].name)
              + Entries(engine.results.skipped, Given[n].type, Given[n].name) = 1
        /\ engine.dry_run =>
            \A n \in 1..Len(Given) :
                Entries(engine.results.skipped, Given[n].type, Given[n].name) = 1
C29_Witness ==
    /\ engine.step = "returned" /\ ~engine.dry_run
    /\ engine.raised = <<TRUE, FALSE>>
    /\ Len(engine.results.failed) = 1 /\ Len(engine.results.imported) = 1
    /\ engine.attempts[2].type = "app"
    /\ engine.import_stats["apps_created"] = 1
C29_DryRunWitness ==
    /\ engine.step = "returned" /\ engine.dry_run
    /\ Len(engine.results.skipped) = 2

\* the type and the name the handler reads from an entry
TypeOf(resource) == Or(resource.type, resource.resource_type)
NameOf(resource) == Or(resource.name, resource.resource_name)
Missing(resource) == ~Truthy(TypeOf(resource)) \/ ~Truthy(NameOf(resource))
Unsupported(resource) == ~Missing(resource) /\ ~Truthy(normalize_map(TypeOf(resource)))
Migratable(resource) ==
    ~Missing(resource) /\ ~Unsupported(resource) /\ NameOf(resource) # Number
Successes(results) == Cardinality({i \in 1..Len(results) : results[i].success})

====
